---- MODULE Spec2Model ----
(***************************************************************************)
(* A model of the BlockNote portfolio editor:                              *)
(*   - the sanitize step of handleExportPDF (BlockNoteEditor.tsx), a pure  *)
(*     function over JavaScript values, checked under SpecSanitize;        *)
(*   - the ProjectCard block (ProjectCard.tsx): the modal with its nested  *)
(*     editor, the synchronizer that writes nested changes back into the   *)
(*     parent block's props, and the direct title/subtext edits, checked   *)
(*     under SpecCard;                                                     *)
(*   - the export rendering pipeline (pdfExport.tsx): grouping pass,       *)
(*     renderBlock and the tree search, checked under SpecPdf;             *)
(*   - the editor component (BlockNoteEditor.tsx with storage.ts): start-up*)
(*     load, debounced auto-save, manual save, clear and the export flow,  *)
(*     checked under SpecEditor, SpecEditorFair and SpecExportFair.        *)
(* The synchronizer of the card with notifications that raise is checked   *)
(* under SpecCardFair.                                                     *)
(***************************************************************************)
EXTENDS Integers, Sequences, FiniteSets, TLC

VARIABLES
    \* ---- sanitize step of handleExportPDF ----
    rawDocument,     \* editor.document as handed to the export flow
    document,        \* the deep clone produced by the JSON round trip
    validDocument,   \* the filtered and sanitized block array
    pc,              \* position inside the sanitize step
    error,           \* message of the Error raised by the step, "" if none
    pass,            \* 1: first application, 2: re-application to its own result
    firstResult,     \* validDocument of the first application
    \* ---- ProjectCard block ----
    props,           \* block.props of the card in the parent editor
    open,            \* modal open
    isEditing,       \* card-view title/subtext edit mode
    isEditingModalTitle,
    editTitle, editSubtext, editModalTitle,
    isUpdatingRef,   \* reentrancy guard of the synchronizer
    nestedDoc,       \* nestedEditor.document of the open session
    subscribed,      \* the onChange handler of the sync effect is subscribed
    timers,          \* number of pending guard-clear timeouts
    notified,        \* change notifications delivered to the handler
    unguarded,       \* ... of which arrived while the guard was clear
    writes,          \* editor.updateBlock calls made by the synchronizer
    edits,           \* nested-document changes made so far (bounds the run)
    lastWrite,       \* the document of the last synchronizer write, <<>> if none
    last,            \* what the last step did, with the values it used
    \* ---- export rendering pipeline (pdfExport.tsx) ----
    pdfDocument,     \* the document prop of PDFDocument
    processedBlocks, \* result of the grouping pass
    cursor,          \* number of processed blocks rendered so far
    outputNodes,     \* the nodes rendered so far, in order
    pdfPc,           \* "group", "render", "done", "aborted"; "idle" at rest
    coverUrl,        \* result of findFirstImage (ProjectCard.tsx), Null before
    pdfCoverUrl,     \* result of findFirstImage (pdfExport.tsx), Null before
    \* ---- editor component (BlockNoteEditor.tsx, storage.ts) ----
    storage,         \* localStorage value under STORAGE_KEY
    mounted,         \* the component is mounted (the page is loaded)
    editorDoc,       \* editor.document, the live document
    initialContent,  \* what useCreateBlockNote was given at mount
    loadRaised,      \* loadEditorContent raised an error to its caller
    saveTimer,       \* number of pending debounce timeouts of the auto-save effect
    changes,         \* change notifications so far (bounds the run)
    isExporting,     \* the export pending flag
    exportPc,        \* position of the running export handler, "idle" if none
    exportRuns,      \* runs of handleExportPDF in progress
    exportDoc,       \* validDocument of the running export
    requests,        \* requests made to pdf(...).toBlob() since the export began
    downloads,       \* downloads triggered since the export began
    alerts,          \* messages shown since the export began
    atExportStart,   \* editorDoc and storage when the export began
    exportError,     \* the error caught by the running or last export, if any
    loadedContent,   \* what loadEditorContent returned when the component mounted
    lastStorageOp,   \* the last saveEditorContent or clearEditorContent call
    step             \* name of the last editor step

sanVars == <<rawDocument, document, validDocument, pc, error, pass, firstResult>>
cardVars == <<props, open, isEditing, isEditingModalTitle, editTitle, editSubtext,
              editModalTitle, isUpdatingRef, nestedDoc, subscribed, timers,
              notified, unguarded, writes, edits, lastWrite, last>>
pdfVars == <<pdfDocument, processedBlocks, cursor, outputNodes, pdfPc, coverUrl,
             pdfCoverUrl>>
edVars == <<storage, mounted, editorDoc, initialContent, loadRaised, saveTimer,
            changes, isExporting, exportPc, exportRuns, exportDoc, requests,
            downloads, alerts, atExportStart, exportError, loadedContent,
            lastStorageOp, step>>
vars == <<sanVars, cardVars, pdfVars, edVars>>

-----------------------------------------------------------------------------
(* JavaScript values.  Every value is a record [k, v]: k is the kind, v the *)
(* payload (a sequence for an array, a function from keys to values for an *)
(* object).                                                                *)

Null == [k |-> "null", v |-> ""]
Undef == [k |-> "undefined", v |-> ""]
Fn == [k |-> "function", v |-> ""]
Sym == [k |-> "symbol", v |-> ""]
BigInt == [k |-> "bigint", v |-> ""]
Thrown == [k |-> "throw", v |-> ""]      \* a TypeError raised while evaluating
Bool(b) == [k |-> "boolean", v |-> b]
Num(n) == [k |-> "number", v |-> n]
Str(s) == [k |-> "string", v |-> s]
Text(toks) == [k |-> "text", v |-> toks] \* a string holding JSON text, as tokens
Arr(s) == [k |-> "array", v |-> s]
Obj(f) == [k |-> "object", v |-> f]
EmptyObj == Obj(<<>>)

\* typeof x
TypeOf(x) ==
    CASE x.k \in {"null", "array", "object"} -> "object"
      [] x.k = "text" -> "string"
      [] OTHER -> x.k

\* Array.isArray(x)
IsArray(x) == x.k = "array"

\* ToBoolean(x): the truthiness test of `if (x)`, `x && ...`, `x || ...`
Truthy(x) ==
    CASE x.k \in {"null", "undefined"} -> FALSE
      [] x.k = "boolean" -> x.v
      [] x.k = "number" -> x.v # 0
      [] x.k = "string" -> x.v # ""
      [] x.k = "text" -> x.v # <<>>
      [] OTHER -> TRUE

\* x === "s", x === n and x === true
IsStr(x, s) == x.k = "string" /\ x.v = s
IsNum(x, n) == x.k = "number" /\ x.v = n
IsTrue(x) == x.k = "boolean" /\ x.v

\* x[key]: a TypeError on null and undefined, undefined for a missing key
Get(x, key) ==
    CASE x.k \in {"null", "undefined"} -> Thrown
      [] x.k = "object" -> IF key \in DOMAIN x.v THEN x.v[key] ELSE Undef
      [] OTHER -> Undef

\* the property keys of array indices
IndexKeys == <<"0", "1", "2", "3", "4", "5", "6", "7">>

\* Object.entries(x) as a function from key to value
Entries(x) ==
    CASE x.k = "object" -> x.v
      [] x.k = "array" ->
            [key \in {IndexKeys[i] : i \in 1..Len(x.v)} |->
                x.v[CHOOSE i \in 1..Len(x.v) : IndexKeys[i] = key]]
      [] OTHER -> <<>>

\* the keys of a set in a fixed order (property enumeration order)
RECURSIVE KeySeq(_)
KeySeq(S) ==
    IF S = {} THEN <<>>
    ELSE LET key == CHOOSE key \in S : TRUE
         IN <<key>> \o KeySeq(S \ {key})

-----------------------------------------------------------------------------
(* JSON text, as a sequence of tokens [k, v].                              *)

Tok(kind) == [k |-> kind, v |-> ""]
TStr(s) == [k |-> "str", v |-> s]
TText(toks) == [k |-> "strtext", v |-> toks]
TNum(n) == [k |-> "num", v |-> n]
TBool(b) == [k |-> "bool", v |-> b]
TWs == Tok(" ")          \* white space
TJunk == Tok("junk")     \* text that is no JSON token

SerOk(toks) == [st |-> "ok", toks |-> toks]
SerUndefined == [st |-> "undefined", toks |-> <<>>]
SerThrow == [st |-> "throw", toks |-> <<>>]

\* keys that start with '_' or '$$'
InternalKeys == {"_owner", "$$typeof"}

\* the replacer handed to JSON.stringify by handleExportPDF
Replacer(key, value) ==
    IF value.k \in {"undefined", "function", "symbol"} THEN Undef
    ELSE IF key \in InternalKeys THEN Undef
    ELSE value

\* the value JSON.stringify serializes for a key: the replacer's, if there is one
Replaced(rep, key, value) == IF rep THEN Replacer(key, value) ELSE value

\* JSON.stringify: SerializeJSONProperty / Array / Object of ECMA-262
RECURSIVE SerializeJSONProperty(_, _, _)
RECURSIVE SerializeJSONArray(_, _, _)
RECURSIVE SerializeJSONObject(_, _, _)

SerializeJSONProperty(key, value0, rep) ==
    LET value == Replaced(rep, key, value0)
    IN CASE value.k = "null" -> SerOk(<<Tok("null")>>)
         [] value.k = "boolean" -> SerOk(<<TBool(value.v)>>)
         [] value.k = "string" -> SerOk(<<TStr(value.v)>>)
         [] value.k = "text" -> SerOk(<<TText(value.v)>>)
         [] value.k = "number" -> SerOk(<<TNum(value.v)>>)
         [] value.k = "bigint" -> SerThrow
         [] value.k = "array" ->
               LET r == SerializeJSONArray(value.v, 1, rep)
               IN IF r.st = "throw" THEN SerThrow
                  ELSE SerOk(<<Tok("[")>> \o r.toks \o <<Tok("]")>>)
         [] value.k = "object" ->
               LET r == SerializeJSONObject(value.v, KeySeq(DOMAIN value.v), rep)
               IN IF r.st = "throw" THEN SerThrow
                  ELSE SerOk(<<Tok("{")>> \o r.toks \o <<Tok("}")>>)
         [] OTHER -> SerUndefined

\* the elements i.. of an array, comma separated; undefined becomes null
SerializeJSONArray(elems, i, rep) ==
    IF i > Len(elems) THEN SerOk(<<>>)
    ELSE LET r == SerializeJSONProperty(IndexKeys[i], elems[i], rep)
             rest == SerializeJSONArray(elems, i + 1, rep)
             toks == IF r.st = "undefined" THEN <<Tok("null")>> ELSE r.toks
         IN IF r.st = "throw" \/ rest.st = "throw" THEN SerThrow
            ELSE SerOk(toks \o (IF rest.toks = <<>> THEN <<>>
                                ELSE <<Tok(",")>> \o rest.toks))

\* the members of an object, comma separated; undefined members are left out
SerializeJSONObject(f, keys, rep) ==
    IF keys = <<>> THEN SerOk(<<>>)
    ELSE LET key == Head(keys)
             r == SerializeJSONProperty(key, f[key], rep)
             rest == SerializeJSONObject(f, Tail(keys), rep)
             toks == IF r.st = "undefined" THEN <<>>
                     ELSE <<TStr(key), Tok(":")>> \o r.toks
         IN IF r.st = "throw" \/ rest.st = "throw" THEN SerThrow
            ELSE SerOk(toks \o (IF toks = <<>> \/ rest.toks = <<>> THEN <<>>
                                ELSE <<Tok(",")>>) \o rest.toks)

\* JSON.parse: a recursive-descent parser over the tokens
ParseError == [ok |-> FALSE, val |-> Null, next |-> 0]
Parsed(val, next) == [ok |-> TRUE, val |-> val, next |-> next]

RECURSIVE ParseValue(_, _)
RECURSIVE ParseElements(_, _, _)
RECURSIVE ParseMembers(_, _, _)

ParseValue(t, i) ==
    IF i > Len(t) THEN ParseError
    ELSE CASE t[i].k = "null" -> Parsed(Null, i + 1)
           [] t[i].k = "bool" -> Parsed(Bool(t[i].v), i + 1)
           [] t[i].k = "num" -> Parsed(Num(t[i].v), i + 1)
           [] t[i].k = "str" -> Parsed(Str(t[i].v), i + 1)
           [] t[i].k = "strtext" -> Parsed(Text(t[i].v), i + 1)
           [] t[i].k = "[" ->
                 IF i + 1 <= Len(t) /\ t[i + 1].k = "]"
                 THEN Parsed(Arr(<<>>), i + 2)
                 ELSE ParseElements(t, i + 1, <<>>)
           [] t[i].k = "{" ->
                 IF i + 1 <= Len(t) /\ t[i + 1].k = "}"
                 THEN Parsed(EmptyObj, i + 2)
                 ELSE ParseMembers(t, i + 1, <<>>)
           [] OTHER -> ParseError

ParseElements(t, i, acc) ==
    LET r == ParseValue(t, i)
    IN IF ~r.ok \/ r.next > Len(t) THEN ParseError
       ELSE IF t[r.next].k = ","
            THEN ParseElements(t, r.next + 1, Append(acc, r.val))
       ELSE IF t[r.next].k = "]"
            THEN Parsed(Arr(Append(acc, r.val)), r.next + 1)
       ELSE ParseError

ParseMembers(t, i, acc) ==
    IF i + 1 > Len(t) \/ t[i].k # "str" \/ t[i + 1].k # ":" THEN ParseError
    ELSE LET r == ParseValue(t, i + 2)
             f == (t[i].v :> r.val) @@ acc
         IN IF ~r.ok \/ r.next > Len(t) THEN ParseError
            ELSE IF t[r.next].k = ","
                 THEN ParseMembers(t, r.next + 1, f)
            ELSE IF t[r.next].k = "}"
                 THEN Parsed(Obj(f), r.next + 1)
            ELSE ParseError

IsWs(tok) == tok.k = " "

\* JSON.parse(text): [ok, val]; ok = FALSE is the SyntaxError
JSONparse(text) ==
    LET t == SelectSeq(text, LAMBDA tok : ~IsWs(tok))
        r == ParseValue(t, 1)
    IN IF r.ok /\ r.next = Len(t) + 1
       THEN [ok |-> TRUE, val |-> r.val]
       ELSE [ok |-> FALSE, val |-> Null]

\* JSON.stringify(value): the text of a value that has one
JSONstringify(value) == SerializeJSONProperty("", value, FALSE)

-----------------------------------------------------------------------------
(* The sanitize step of handleExportPDF.                                   *)

\* JSON.parse(JSON.stringify(rawDocument, replacer)).  JSON.stringify raises a
\* TypeError on a BigInt and returns undefined for an undefined, function or
\* symbol root, which JSON.parse rejects; both end in the Error raised by the
\* catch clause.
JsonClone(raw) ==
    LET s == SerializeJSONProperty("", raw, TRUE)
    IN IF s.st = "ok" THEN JSONparse(s.toks) ELSE [ok |-> FALSE, val |-> Null]

\* value === null || ['string', 'number', 'boolean'].includes(typeof value)
IsPrimitiveProp_typeofOnly(value) ==
    TypeOf(value) \in {"string", "number", "boolean", "object"}

IsPrimitiveProp(value) ==
    value = Null \/ TypeOf(value) \in {"string", "number", "boolean"}

\* sanitized.props: the primitive-valued entries of block.props
SanitizedProps(p) ==
    LET e == Entries(p)
    IN Obj([key \in {kk \in DOMAIN e : IsPrimitiveProp(e[kk])} |-> e[key]])

\* Array.isArray(block.content) ? block.content : []
SanitizedContent(c) == IF IsArray(c) THEN c ELSE Arr(<<>>)

RECURSIVE sanitizeBlock(_)

\* xs.map(sanitizeBlock).filter(Boolean); Thrown if a call raised
MapSanitize(xs) ==
    LET out == [i \in 1..Len(xs) |-> sanitizeBlock(xs[i])]
    IN IF \E i \in 1..Len(xs) : out[i] = Thrown THEN Thrown
       ELSE Arr(SelectSeq(out, Truthy))

\* a non-array children value wrapped instead of replaced by []
SanitizedChildren_wrap(c) == IF IsArray(c) THEN MapSanitize(c.v) ELSE Arr(<<c>>)

\* Array.isArray(block.children) ? block.children.map(sanitizeBlock).filter(Boolean) : []
SanitizedChildren(c) == IF IsArray(c) THEN MapSanitize(c.v) ELSE Arr(<<>>)

\* the object sanitizeBlock builds from a block that passed its guard
BuildSanitized(block) ==
    LET type == Get(block, "type")
        id == Get(block, "id")
        content == Get(block, "content")
        children == Get(block, "children")
        bprops == Get(block, "props")
        kids == IF Truthy(children) THEN SanitizedChildren(children) ELSE Undef
    IN IF Thrown \in {type, id, content, children, bprops, kids} THEN Thrown
       ELSE Obj(("type" :> type)
             @@ (IF Truthy(id) THEN ("id" :> id) ELSE <<>>)
             @@ (IF Truthy(content)
                 THEN ("content" :> SanitizedContent(content)) ELSE <<>>)
             @@ (IF Truthy(children) THEN ("children" :> kids) ELSE <<>>)
             @@ (IF Truthy(bprops) /\ TypeOf(bprops) = "object"
                 THEN ("props" :> SanitizedProps(bprops)) ELSE <<>>))

\* the guard written as typeof block !== 'object' alone, which lets null through
sanitizeBlock_noNullGuard(block) ==
    IF TypeOf(block) # "object" THEN Null ELSE BuildSanitized(block)

sanitizeBlock(block) ==
    IF ~Truthy(block) \/ TypeOf(block) # "object" THEN Null
    ELSE BuildSanitized(block)

\* the top-level filter with the type test left out
IsExportable_noType(block) == Truthy(block) /\ TypeOf(block) = "object"

\* block && typeof block === "object" && block.type
IsExportable(block) ==
    Truthy(block) /\ TypeOf(block) = "object" /\ Truthy(Get(block, "type"))

\* document.filter(...).map(sanitizeBlock).filter(Boolean)
FilterAndSanitize(doc) == MapSanitize(SelectSeq(doc.v, IsExportable))

-----------------------------------------------------------------------------
(* The inputs of the sanitize step: every forest of at most MaxNodes       *)
(* entries built from the labels below, and a list of further values.      *)

MaxNodes == 3

TextSpan == Obj([type |-> Str("text"), text |-> Str("hi"), styles |-> EmptyObj])

\* a well-formed paragraph
LParagraph ==
    [type |-> Str("paragraph"), id |-> Str("b1"), content |-> Arr(<<TextSpan>>),
     props |-> Obj([textAlignment |-> Str("left"), level |-> Num(1)])]
\* an object with no type
LNoType == [id |-> Str("b2")]
\* a card whose props hold an object, an array, a function and an internal key
LCard ==
    [type |-> Str("projectCard"),
     props |-> Obj(("title" :> Str("a")) @@ ("meta" :> EmptyObj)
                   @@ ("tags" :> Arr(<<Str("x")>>)) @@ ("onClick" :> Fn)
                   @@ ("flag" :> Bool(FALSE)) @@ ("cover" :> Null)
                   @@ ("_owner" :> Str("o")))]
\* an empty type
LEmptyType == [type |-> Str(""), id |-> Str("b4")]
\* a type that is no string, and a content that is no array
LNumType == [type |-> Num(1), content |-> Str("text")]

BlockLabels == {LParagraph, LNoType, LCard, LEmptyType, LNumType}

\* entries that are no blocks
NonBlocks == {Null, Undef, Str("s"), Arr(<<>>)}

MkBlock(l, c) == IF c = <<>> THEN Obj(l) ELSE Obj(l @@ ("children" :> Arr(c)))

\* the sequences of entries that hold n entries in all, children included
RECURSIVE ForestsOfSize(_)
ForestsOfSize(n) ==
    IF n = 0 THEN {<<>>}
    ELSE UNION {{<<MkBlock(l, c)>> \o r :
                    l \in BlockLabels, c \in ForestsOfSize(a),
                    r \in ForestsOfSize(n - 1 - a)} : a \in 0..(n - 1)}
         \cup {<<x>> \o r : x \in NonBlocks, r \in ForestsOfSize(n - 1)}

\* values that are no arrays
NonArrayInputs ==
    {Null, Undef, Fn, Sym, EmptyObj, Str("doc"), Num(7), Bool(TRUE),
     Obj(LParagraph), BigInt}

\* one-block documents that vary a single field
FieldVariants ==
    {Arr(<<Obj(("type" :> Str("heading")) @@ f)>>) :
        f \in {("id" :> Num(0)),
               ("id" :> Obj([n |-> Num(1), f |-> Fn])),
               ("content" :> EmptyObj),
               ("content" :> Arr(<<Obj(("type" :> Str("text")) @@ ("_owner" :> Str("o"))),
                                    Fn, Str("raw")>>)),
               ("content" :> Bool(TRUE)),
               ("props" :> Arr(<<Str("a"), EmptyObj, Num(2)>>)),
               ("props" :> Str("p")),
               ("props" :> Null),
               ("props" :> Obj(("n" :> BigInt))),
               ("props" :> Obj(("_owner" :> BigInt) @@ ("title" :> Str("t")))),
               ("children" :> Obj(LCard)),
               ("children" :> Str("c")),
               ("children" :> Arr(<<Arr(<<Obj(LCard)>>), Num(3), Bool(TRUE)>>)),
               ("children" :> Arr(<<BigInt>>)),
               ("$$typeof" :> Sym)}}
    \cup {Arr(<<Obj(("type" :> t))>>) : t \in {Fn, Null, EmptyObj, Bool(TRUE), Sym}}
    \cup {Arr(<<BigInt>>), Arr(<<Fn, Sym, Num(0)>>)}

\* the inputs whose arrays hold at most max entries in all
Inputs(max) ==
    {Arr(f) : f \in UNION {ForestsOfSize(n) : n \in 0..max}}
    \cup NonArrayInputs \cup FieldVariants

-----------------------------------------------------------------------------
(* The ProjectCard block.                                                  *)

\* getDefaultNestedContent without the fallback for an empty title
getDefaultNestedContent_noFallback(title) ==
    <<Obj([type |-> Str("heading"), content |-> title]),
      Obj([type |-> Str("paragraph"),
           content |-> Str("Start writing project details here...")])>>

getDefaultNestedContent(title) ==
    <<Obj([type |-> Str("heading"),
           content |-> IF Truthy(title) THEN title ELSE Str("Project Title")]),
      Obj([type |-> Str("paragraph"),
           content |-> Str("Start writing project details here...")])>>

\* s.trim() of a JSON text: the white space at both ends removed
RECURSIVE TrimLeft(_)
TrimLeft(t) == IF t # <<>> /\ IsWs(Head(t)) THEN TrimLeft(Tail(t)) ELSE t
RECURSIVE TrimRight(_)
TrimRight(t) ==
    IF t # <<>> /\ IsWs(t[Len(t)]) THEN TrimRight(SubSeq(t, 1, Len(t) - 1)) ELSE t
Trim(t) == TrimRight(TrimLeft(t))

\* an initial content that is the default one whatever the props hold
getInitialNestedContent_alwaysDefault(p) == getDefaultNestedContent(p.title)

\* the initial content of the nested editor, from block.props
getInitialNestedContent(p) ==
    IF Truthy(p.nestedContent) /\ Trim(p.nestedContent.v) # <<>>
    THEN LET parsed == JSONparse(p.nestedContent.v)
         IN IF ~parsed.ok THEN getDefaultNestedContent(p.title)
            ELSE IF IsArray(parsed.val) /\ Len(parsed.val.v) > 0
                 THEN parsed.val.v
            ELSE getDefaultNestedContent(p.title)
    ELSE getDefaultNestedContent(p.title)

\* node.props?.url
OptUrl(node) ==
    LET np == Get(node, "props")
    IN IF np.k \in {"null", "undefined"} THEN Undef ELSE Get(np, "url")

\* a search that looks at the top-level nodes only
findFirstImage_topLevelOnly(doc) ==
    LET idx == {i \in 1..Len(doc) :
                   IsStr(Get(doc[i], "type"), "image") /\ Truthy(OptUrl(doc[i]))}
    IN IF idx = {} THEN Str("")
       ELSE OptUrl(doc[CHOOSE i \in idx : \A j \in idx : i <= j])

\* findFirstImage of ProjectCard.tsx: the url of the first image, searching
\* each node and then its content array; "" if there is none, Thrown for the
\* TypeError of reading a property of a null or undefined node
RECURSIVE findFirstImage(_)
findFirstImage(doc) ==
    IF doc = <<>> THEN Str("")
    ELSE LET node == Head(doc)
             content == Get(node, "content")
             nested == IF content.k # "throw" /\ Truthy(content) /\ IsArray(content)
                       THEN findFirstImage(content.v) ELSE Str("")
         IN IF Get(node, "type").k = "throw" THEN Thrown
            ELSE IF IsStr(Get(node, "type"), "image") /\ Truthy(OptUrl(node))
            THEN OptUrl(node)
            ELSE IF nested.k = "throw" THEN Thrown
            ELSE IF Truthy(nested) THEN nested
            ELSE findFirstImage(Tail(doc))

\* editor.updateBlock(block, {props: partial}): partial merged into the props
UpdateBlock(p, partial) == partial @@ p

\* the props the onChange handler writes, with the cover image not kept when
\* the document holds no image
SyncedProps_noFallback(p, doc) ==
    [coverImage |-> findFirstImage(doc),
     nestedContent |-> Text(JSONstringify(Arr(doc)).toks)]

\* the props the onChange handler writes for the nested document doc
SyncedProps(p, doc) ==
    LET newCoverImage == findFirstImage(doc)
        serializedContent == Text(JSONstringify(Arr(doc)).toks)
    IN [coverImage |-> IF Truthy(newCoverImage) THEN newCoverImage
                       ELSE p.coverImage,
        nestedContent |-> serializedContent]

\* the handler with its guard test left out
HandlerRuns_always(guard) == TRUE

\* if (isUpdatingRef.current) return;
HandlerRuns(guard) == ~guard

\* a handler that sets the timeout at the end of its try block
TimersAfterHandler_tryOnly(raised, pending) ==
    IF raised THEN pending ELSE pending + 1

\* the finally clause of the onChange handler: the guard-clear timeout is
\* set whether or not the try block raised; no earlier timeout is cleared
TimersAfterHandler(raised, pending) == pending + 1

\* an effect that leaves the handler subscribed when the modal is closed
SubscribedAfterRender_always(isOpen) == TRUE

\* the sync effect after a render: it subscribes the handler only when the
\* modal is open, and its cleanup has unsubscribed the previous one
SubscribedAfterRender(isOpen) == isOpen

\* the props handleSaveEdit writes, with the defaults for empty input left out
SavedEdit_noDefaults(title, subtext) == [title |-> title, subtext |-> subtext]

\* the props handleSaveEdit writes
SavedEdit(title, subtext) ==
    [title |-> IF Truthy(title) THEN title ELSE Str("New Project"),
     subtext |-> IF Truthy(subtext) THEN subtext ELSE Str("Project description")]

\* the props handleSaveModalTitle writes
SavedModalTitle(title) ==
    [title |-> IF Truthy(title) THEN title ELSE Str("New Project")]

-----------------------------------------------------------------------------
(* The values the card is exercised with.                                  *)

MaxEdits == 3

Heading(text) == Obj([type |-> Str("heading"), content |-> Arr(<<Str(text)>>)])
Paragraph(text) == Obj([type |-> Str("paragraph"), content |-> Arr(<<Str(text)>>)])
Image(url) == Obj([type |-> Str("image"), props |-> Obj([url |-> Str(url)])])

DocPlain == <<Heading("Title"), Paragraph("Body")>>
DocImage == <<Heading("Title"), Paragraph("Body"), Image("x.png")>>
DocTwoImages == <<Image(""), Paragraph("Body"), Image("y.png")>>
DocChildImage ==
    <<Obj([type |-> Str("bulletListItem"), content |-> Arr(<<Str("item")>>),
           children |-> Arr(<<Image("z.png")>>)])>>

\* the documents the nested editor is changed to
NestedDocs == {DocPlain, DocImage, DocTwoImages, DocChildImage}

EncodeDoc(doc) == JSONstringify(Arr(doc)).toks

\* the values of props.nestedContent a card starts with: empty, blank, no
\* JSON, JSON that is no array, an empty array, and encoded documents
InitialTexts ==
    {<<>>, <<TWs, TWs>>, <<TJunk>>, <<Tok("["), TStr("a")>>,
     <<Tok("{"), Tok("}")>>, <<TNum(42)>>, <<Tok("["), Tok("]")>>,
     EncodeDoc(DocImage), <<TWs>> \o EncodeDoc(DocChildImage) \o <<TWs>>}

Titles == {Str(""), Str("Portfolio")}
Subtexts == {Str("About")}
Covers == {Str(""), Str("old.png")}

-----------------------------------------------------------------------------
(* The sanitize step at rest: the values its variables keep while the card *)
(* is checked.                                                             *)

SanitizeAtRest ==
    /\ rawDocument = Null
    /\ document = Null
    /\ validDocument = Null
    /\ pc = "idle"
    /\ error = ""
    /\ pass = 0
    /\ firstResult = Null

-----------------------------------------------------------------------------
(* The card at rest: the values the ProjectCard variables keep while the   *)
(* sanitize step is checked.                                               *)

CardAtRest ==
    /\ props = [title |-> Str("New Project"), subtext |-> Str("Project description"),
                coverImage |-> Str(""), nestedContent |-> Text(<<>>)]
    /\ open = FALSE
    /\ isEditing = FALSE
    /\ isEditingModalTitle = FALSE
    /\ editTitle = Str("New Project")
    /\ editSubtext = Str("Project description")
    /\ editModalTitle = Str("New Project")
    /\ isUpdatingRef = FALSE
    /\ nestedDoc = <<>>
    /\ subscribed = FALSE
    /\ timers = 0
    /\ notified = 0
    /\ unguarded = 0
    /\ writes = 0
    /\ edits = 0
    /\ lastWrite = <<>>
    /\ last = [op |-> "mount", before |-> props]

-----------------------------------------------------------------------------
(* The rendering pipeline and the editor component at rest.                *)

PdfAtRest ==
    /\ pdfDocument = <<>>
    /\ processedBlocks = <<>>
    /\ cursor = 0
    /\ outputNodes = <<>>
    /\ pdfPc = "idle"
    /\ coverUrl = Null
    /\ pdfCoverUrl = Null

EditorAtRest ==
    /\ storage = Null
    /\ mounted = FALSE
    /\ editorDoc = <<>>
    /\ initialContent = <<>>
    /\ loadRaised = FALSE
    /\ saveTimer = 0
    /\ changes = 0
    /\ isExporting = FALSE
    /\ exportPc = "idle"
    /\ exportRuns = 0
    /\ exportDoc = Null
    /\ requests = 0
    /\ downloads = 0
    /\ alerts = <<>>
    /\ atExportStart = [doc |-> <<>>, storage |-> Null]
    /\ exportError = [caught |-> <<>>, escaped |-> FALSE]
    /\ loadedContent = Null
    /\ lastStorageOp = [op |-> "none", doc |-> <<>>, ok |-> TRUE]
    /\ step = "none"

-----------------------------------------------------------------------------
(* The sanitize step as a state machine: clone, validate, sanitize; then   *)
(* the step is applied once more to its own result.                        *)

InitSanitize ==
    /\ rawDocument \in Inputs(MaxNodes)
    /\ document = Null
    /\ validDocument = Null
    /\ pc = "clone"
    /\ error = ""
    /\ pass = 1
    /\ firstResult = Null
    /\ CardAtRest
    /\ PdfAtRest
    /\ EditorAtRest

Fail(msg) ==
    /\ pc' = "failed"
    /\ error' = msg
    /\ UNCHANGED <<rawDocument, document, validDocument, pass, firstResult>>

\* document = JSON.parse(JSON.stringify(rawDocument, replacer)), or the Error
\* of the catch clause
CloneDocument ==
    /\ pc = "clone"
    /\ LET r == JsonClone(rawDocument)
       IN IF r.ok
          THEN /\ document' = r.val
               /\ pc' = "validate"
               /\ UNCHANGED <<rawDocument, validDocument, error, pass, firstResult>>
          ELSE Fail("Failed to serialize document")
    /\ UNCHANGED <<cardVars, pdfVars, edVars>>

\* if (!Array.isArray(document)) throw ...
ValidateDocument ==
    /\ pc = "validate"
    /\ IF IsArray(document)
       THEN /\ pc' = "sanitize"
            /\ UNCHANGED <<rawDocument, document, validDocument, error, pass,
                           firstResult>>
       ELSE Fail("Invalid document format: expected array")
    /\ UNCHANGED <<cardVars, pdfVars, edVars>>

\* validDocument = document.filter(...).map(sanitizeBlock).filter(Boolean)
SanitizeDocument ==
    /\ pc = "sanitize"
    /\ LET r == FilterAndSanitize(document)
       IN IF r = Thrown
          THEN Fail("TypeError")
          ELSE /\ validDocument' = r
               /\ pc' = "done"
               /\ UNCHANGED <<rawDocument, document, error, pass, firstResult>>
    /\ UNCHANGED <<cardVars, pdfVars, edVars>>

\* the step applied to its own result
Reapply ==
    /\ pc = "done"
    /\ pass = 1
    /\ rawDocument' = validDocument
    /\ firstResult' = validDocument
    /\ pass' = 2
    /\ pc' = "clone"
    /\ document' = Null
    /\ validDocument' = Null
    /\ UNCHANGED error
    /\ UNCHANGED <<cardVars, pdfVars, edVars>>

NextSanitize ==
    \/ CloneDocument
    \/ ValidateDocument
    \/ SanitizeDocument
    \/ Reapply

SpecSanitize == InitSanitize /\ [][NextSanitize]_vars

-----------------------------------------------------------------------------
(* The ProjectCard block as a state machine.  Rendering after a state      *)
(* change, with the effects it runs, is part of the step that changes the  *)
(* state: the nested editor is created from getInitialNestedContent() and  *)
(* the onChange handler subscribed when the modal opens, and the handler   *)
(* reads the block of the latest render.  A change of the nested document  *)
(* and the notification of the handler are one step.  editor.updateBlock   *)
(* merges the partial props and does not fail.                             *)

\* what the user types into the title and subtext inputs
TypedTitles == {Str(""), Str("Demo")}
TypedSubtexts == {Str(""), Str("About")}

InitCard ==
    /\ props \in [title : Titles, subtext : Subtexts, coverImage : Covers,
                  nestedContent : {Text(t) : t \in InitialTexts}]
    /\ open = FALSE
    /\ isEditing = FALSE
    /\ isEditingModalTitle = FALSE
    /\ editTitle = props.title
    /\ editSubtext = props.subtext
    /\ editModalTitle = props.title
    /\ isUpdatingRef = FALSE
    /\ nestedDoc = <<>>
    /\ subscribed = FALSE
    /\ timers = 0
    /\ notified = 0
    /\ unguarded = 0
    /\ writes = 0
    /\ edits = 0
    /\ lastWrite = <<>>
    /\ last = [op |-> "mount", before |-> props]
    /\ SanitizeAtRest
    /\ PdfAtRest
    /\ EditorAtRest

Did(op) == last' = [op |-> op, before |-> props]

\* a click on the card: the modal opens unless the card is in edit mode
handleCardClick ==
    /\ ~open
    /\ ~isEditing
    /\ open' = TRUE
    /\ nestedDoc' = getInitialNestedContent(props)
    /\ subscribed' = SubscribedAfterRender(TRUE)
    /\ Did("handleCardClick")
    /\ UNCHANGED <<props, isEditing, isEditingModalTitle, editTitle, editSubtext,
                   editModalTitle, isUpdatingRef, timers, notified, unguarded,
                   writes, edits>>
    /\ UNCHANGED lastWrite
    /\ UNCHANGED <<sanVars, pdfVars, edVars>>

\* the Close button: setOpen(false); the effect cleanup unsubscribes the
\* handler and the nested session is discarded
CloseModal ==
    /\ open
    /\ open' = FALSE
    /\ nestedDoc' = <<>>
    /\ subscribed' = SubscribedAfterRender(FALSE)
    /\ Did("close")
    /\ UNCHANGED <<props, isEditing, isEditingModalTitle, editTitle, editSubtext,
                   editModalTitle, isUpdatingRef, timers, notified, unguarded,
                   writes, edits>>
    /\ UNCHANGED lastWrite
    /\ UNCHANGED <<sanVars, pdfVars, edVars>>

\* the nested document changes to doc and the onChange handler is notified
NestedChange(doc) ==
    /\ subscribed
    /\ edits < MaxEdits
    /\ doc # nestedDoc
    /\ nestedDoc' = doc
    /\ edits' = edits + 1
    /\ notified' = notified + 1
    /\ unguarded' = IF isUpdatingRef THEN unguarded ELSE unguarded + 1
    /\ IF HandlerRuns(isUpdatingRef)
       THEN /\ isUpdatingRef' = TRUE
            /\ props' = UpdateBlock(props, SyncedProps(props, doc))
            /\ writes' = writes + 1
            /\ lastWrite' = doc
            /\ timers' = TimersAfterHandler(FALSE, timers)
       ELSE UNCHANGED <<isUpdatingRef, props, writes, lastWrite, timers>>
    /\ Did("onChange")
    /\ UNCHANGED <<open, isEditing, isEditingModalTitle, editTitle, editSubtext,
                   editModalTitle, subscribed>>
    /\ UNCHANGED <<sanVars, pdfVars, edVars>>

\* a guard-clear timeout fires: isUpdatingRef.current = false
GuardClear ==
    /\ timers > 0
    /\ timers' = timers - 1
    /\ isUpdatingRef' = FALSE
    /\ Did("guardClear")
    /\ UNCHANGED <<props, open, isEditing, isEditingModalTitle, editTitle,
                   editSubtext, editModalTitle, nestedDoc, subscribed, notified,
                   unguarded, writes, edits>>
    /\ UNCHANGED lastWrite
    /\ UNCHANGED <<sanVars, pdfVars, edVars>>

\* the edit button of the card view
handleEditClick ==
    /\ ~open
    /\ ~isEditing
    /\ isEditing' = TRUE
    /\ Did("handleEditClick")
    /\ UNCHANGED <<props, open, isEditingModalTitle, editTitle, editSubtext,
                   editModalTitle, isUpdatingRef, nestedDoc, subscribed, timers,
                   notified, unguarded, writes, edits>>
    /\ UNCHANGED lastWrite
    /\ UNCHANGED <<sanVars, pdfVars, edVars>>

\* typing into the inputs of the card view
TypeEdit(title, subtext) ==
    /\ isEditing
    /\ <<title, subtext>> # <<editTitle, editSubtext>>
    /\ editTitle' = title
    /\ editSubtext' = subtext
    /\ Did("setEdit")
    /\ UNCHANGED <<props, open, isEditing, isEditingModalTitle, editModalTitle,
                   isUpdatingRef, nestedDoc, subscribed, timers, notified,
                   unguarded, writes, edits>>
    /\ UNCHANGED lastWrite
    /\ UNCHANGED <<sanVars, pdfVars, edVars>>

handleSaveEdit ==
    /\ isEditing
    /\ props' = UpdateBlock(props, SavedEdit(editTitle, editSubtext))
    /\ isEditing' = FALSE
    /\ Did("handleSaveEdit")
    /\ UNCHANGED <<open, isEditingModalTitle, editTitle, editSubtext,
                   editModalTitle, isUpdatingRef, nestedDoc, subscribed, timers,
                   notified, unguarded, writes, edits>>
    /\ UNCHANGED lastWrite
    /\ UNCHANGED <<sanVars, pdfVars, edVars>>

handleCancelEdit ==
    /\ isEditing
    /\ editTitle' = props.title
    /\ editSubtext' = props.subtext
    /\ isEditing' = FALSE
    /\ Did("handleCancelEdit")
    /\ UNCHANGED <<props, open, isEditingModalTitle, editModalTitle,
                   isUpdatingRef, nestedDoc, subscribed, timers, notified,
                   unguarded, writes, edits>>
    /\ UNCHANGED lastWrite
    /\ UNCHANGED <<sanVars, pdfVars, edVars>>

\* the edit button next to the modal's title
handleEditModalTitle ==
    /\ open
    /\ ~isEditingModalTitle
    /\ editModalTitle' = props.title
    /\ isEditingModalTitle' = TRUE
    /\ Did("handleEditModalTitle")
    /\ UNCHANGED <<props, open, isEditing, editTitle, editSubtext, isUpdatingRef,
                   nestedDoc, subscribed, timers, notified, unguarded, writes,
                   edits>>
    /\ UNCHANGED lastWrite
    /\ UNCHANGED <<sanVars, pdfVars, edVars>>

\* typing into the modal's title input
TypeModalTitle(title) ==
    /\ open
    /\ isEditingModalTitle
    /\ title # editModalTitle
    /\ editModalTitle' = title
    /\ Did("setEditModalTitle")
    /\ UNCHANGED <<props, open, isEditing, isEditingModalTitle, editTitle,
                   editSubtext, isUpdatingRef, nestedDoc, subscribed, timers,
                   notified, unguarded, writes, edits>>
    /\ UNCHANGED lastWrite
    /\ UNCHANGED <<sanVars, pdfVars, edVars>>

handleSaveModalTitle ==
    /\ open
    /\ isEditingModalTitle
    /\ props' = UpdateBlock(props, SavedModalTitle(editModalTitle))
    /\ isEditingModalTitle' = FALSE
    /\ Did("handleSaveModalTitle")
    /\ UNCHANGED <<open, isEditing, editTitle, editSubtext, editModalTitle,
                   isUpdatingRef, nestedDoc, subscribed, timers, notified,
                   unguarded, writes, edits>>
    /\ UNCHANGED lastWrite
    /\ UNCHANGED <<sanVars, pdfVars, edVars>>

handleCancelModalTitle ==
    /\ open
    /\ isEditingModalTitle
    /\ editModalTitle' = props.title
    /\ isEditingModalTitle' = FALSE
    /\ Did("handleCancelModalTitle")
    /\ UNCHANGED <<props, open, isEditing, editTitle, editSubtext, isUpdatingRef,
                   nestedDoc, subscribed, timers, notified, unguarded, writes,
                   edits>>
    /\ UNCHANGED lastWrite
    /\ UNCHANGED <<sanVars, pdfVars, edVars>>

NextCard ==
    \/ handleCardClick
    \/ CloseModal
    \/ \E doc \in NestedDocs : NestedChange(doc)
    \/ GuardClear
    \/ handleEditClick
    \/ \E title \in TypedTitles, subtext \in TypedSubtexts : TypeEdit(title, subtext)
    \/ handleSaveEdit
    \/ handleCancelEdit
    \/ handleEditModalTitle
    \/ \E title \in TypedTitles : TypeModalTitle(title)
    \/ handleSaveModalTitle
    \/ handleCancelModalTitle

SpecCard == InitCard /\ [][NextCard]_vars

\* a notification whose try block raises (findFirstImage, JSON.stringify or
\* editor.updateBlock): the error is caught and logged, nothing is written,
\* and the finally clause sets the guard-clear timeout all the same
NestedChangeRaises(doc) ==
    /\ subscribed
    /\ edits < MaxEdits
    /\ doc # nestedDoc
    /\ HandlerRuns(isUpdatingRef)
    /\ nestedDoc' = doc
    /\ edits' = edits + 1
    /\ notified' = notified + 1
    /\ unguarded' = unguarded + 1
    /\ isUpdatingRef' = TRUE
    /\ timers' = TimersAfterHandler(TRUE, timers)
    /\ Did("onChangeRaises")
    /\ UNCHANGED <<props, open, isEditing, isEditingModalTitle, editTitle,
                   editSubtext, editModalTitle, subscribed, writes, lastWrite>>
    /\ UNCHANGED <<sanVars, pdfVars, edVars>>

\* the steps of the synchronizer, with the notifications that raise; the
\* title and subtext edits neither read nor write the guard or its timeouts
NextCardSync ==
    \/ handleCardClick
    \/ CloseModal
    \/ \E doc \in NestedDocs : NestedChange(doc)
    \/ \E doc \in NestedDocs : NestedChangeRaises(doc)
    \/ GuardClear

\* the event loop runs every timeout that is due, also after the modal has
\* been closed: nothing clears the guard-clear timeout
SpecCardFair == InitCard /\ [][NextCardSync]_vars /\ WF_vars(GuardClear)

-----------------------------------------------------------------------------
(* Claims about the sanitize step (SpecSanitize).                          *)

\* whether JSON.stringify with the replacer reaches a BigInt in value
RECURSIVE ReachesBigInt(_, _)
ReachesBigInt(key, value0) ==
    LET value == Replacer(key, value0)
    IN CASE value.k = "bigint" -> TRUE
         [] value.k = "array" ->
               \E i \in 1..Len(value.v) : ReachesBigInt(IndexKeys[i], value.v[i])
         [] value.k = "object" ->
               \E key2 \in DOMAIN value.v : ReachesBigInt(key2, value.v[key2])
         [] OTHER -> FALSE

C2_Idempotent ==
    pass = 2 =>
        /\ pc # "failed"
        /\ pc = "done" => validDocument = firstResult

\* a result with sanitized children and props, sanitized again
C2_Witness ==
    /\ pass = 2 /\ pc = "done"
    /\ \E i \in 1..Len(firstResult.v) :
          /\ "children" \in DOMAIN firstResult.v[i].v
          /\ firstResult.v[i].v["children"].v # <<>>
          /\ "props" \in DOMAIN firstResult.v[i].v

\* every props value of a block, and of its children at every depth, is a
\* string, a number, a boolean or null
RECURSIVE PropsArePrimitive(_)
PropsArePrimitive(block) ==
    /\ block.k = "object"
    /\ "props" \in DOMAIN block.v =>
          /\ block.v["props"].k = "object"
          /\ \A key \in DOMAIN block.v["props"].v :
                block.v["props"].v[key].k \in {"string", "number", "boolean", "null"}
    /\ "children" \in DOMAIN block.v =>
          /\ block.v["children"].k = "array"
          /\ \A i \in 1..Len(block.v["children"].v) :
                PropsArePrimitive(block.v["children"].v[i])

\* C3: in every sanitized result every props value at every depth reached
\* through children is a string, a number, a boolean or null.
C3_PrimitiveProps ==
    pc = "done" =>
        \A i \in 1..Len(validDocument.v) : PropsArePrimitive(validDocument.v[i])

\* a card with object-, array- and function-valued props below a paragraph
C3_Witness ==
    /\ pc = "done" /\ pass = 1
    /\ rawDocument = Arr(<<MkBlock(LParagraph, <<Obj(LCard)>>)>>)
    /\ DOMAIN validDocument.v[1].v["children"].v[1].v["props"].v
          = {"title", "flag", "cover"}

\* every block, and every child at every depth, is a non-null object that
\* carries a type, by the test the top-level filter applies (a truthy type)
RECURSIVE CarriesType(_)
CarriesType(block) ==
    /\ block.k = "object"
    /\ "type" \in DOMAIN block.v
    /\ Truthy(block.v["type"])
    /\ "children" \in DOMAIN block.v =>
          \A i \in 1..Len(block.v["children"].v) :
              CarriesType(block.v["children"].v[i])

\* C4 as stated: in every sanitized result every block at every depth, every
\* entry of every children sequence included, is a non-null object carrying a
\* type; a child entry that is an object without a type is dropped.  (The
\* type is tested as the code tests it at the top level; the reading "the
\* type is a string" is stronger and fails on the same results.)
C4_EveryBlockTyped ==
    pc = "done" =>
        \A i \in 1..Len(validDocument.v) : CarriesType(validDocument.v[i])

\* an entry of the input that the filter accepts: a non-null object with a type
AcceptedEntry(e) ==
    /\ e.k = "object"
    /\ "type" \in DOMAIN e.v
    /\ e.v["type"].k \notin {"undefined", "function", "symbol"}
    /\ Truthy(e.v["type"])

\* C5: the result holds exactly one block per accepted top-level entry of the
\* input, in the input's order (same type, same string id), and nothing for
\* any other entry.
C5_OneBlockPerAcceptedEntry ==
    pc = "done" =>
        LET acc == SelectSeq(rawDocument.v, AcceptedEntry)
        IN /\ Len(validDocument.v) = Len(acc)
           /\ \A i \in 1..Len(acc) :
                 /\ validDocument.v[i].k = "object"
                 /\ validDocument.v[i].v["type"] = acc[i].v["type"]
                 /\ ("id" \in DOMAIN acc[i].v /\ acc[i].v["id"].k = "string"
                     /\ acc[i].v["id"].v # "")
                       => validDocument.v[i].v["id"] = acc[i].v["id"]

\* three entries, the middle one rejected, the outer two kept in order
C5_Witness ==
    /\ pc = "done" /\ pass = 1
    /\ rawDocument = Arr(<<Obj(LCard), Obj(LNoType), Obj(LParagraph)>>)
    /\ Len(validDocument.v) = 2
    /\ validDocument.v[1].v["type"] = Str("projectCard")
    /\ validDocument.v[2].v["id"] = Str("b1")

-----------------------------------------------------------------------------
(* Claims about the ProjectCard block (SpecCard).                          *)

C7_NestedContentConsistent ==
    (open /\ edits >= 1 /\ timers = 0 /\ ~isUpdatingRef)
        => props.nestedContent = Text(EncodeDoc(nestedDoc))

\* C8: a synchronizer write sets nestedContent to the encoding of the nested
\* document read at that notification and coverImage to the first image URL
\* of that document, or leaves coverImage as it was when the document has no
\* image; it never resets a non-empty coverImage to empty and changes no
\* other prop.
C8_SyncWrite ==
    [][(last'.op = "onChange" /\ writes' = writes + 1) =>
          /\ props'.nestedContent = Text(EncodeDoc(nestedDoc'))
          /\ JSONparse(props'.nestedContent.v) = [ok |-> TRUE, val |-> Arr(nestedDoc')]
          /\ props'.coverImage =
                IF findFirstImage(nestedDoc') # Str("")
                THEN findFirstImage(nestedDoc') ELSE props.coverImage
          /\ props.coverImage # Str("") => props'.coverImage # Str("")
          /\ DOMAIN props' = DOMAIN props
          /\ \A key \in DOMAIN props \ {"nestedContent", "coverImage"} :
                props'[key] = props[key]]_vars

\* a write for a document without an image, the cover image kept
C8_Witness ==
    /\ last.op = "onChange" /\ writes = 2
    /\ nestedDoc = DocPlain
    /\ props.coverImage = Str("x.png")
    /\ last.before.coverImage = Str("x.png")
    /\ last.before.nestedContent = Text(EncodeDoc(DocImage))
    /\ props.nestedContent = Text(EncodeDoc(DocPlain))

\* C9 as stated: on confirm props.title and props.subtext become the values
\* held in the local edit state.
C9_ConfirmWritesEditState ==
    [][/\ last'.op = "handleSaveEdit"
            => (props'.title = editTitle /\ props'.subtext = editSubtext)
       /\ last'.op = "handleSaveModalTitle" => props'.title = editModalTitle]_vars

\* C9 as amended: on confirm the title becomes the edited title, or "New
\* Project" when that is empty, and the subtext the edited subtext, or
\* "Project description" when that is empty (the modal's confirm writes the
\* title alone); cancel leaves the props as they are and resets the local edit
\* state to the block's title and subtext; no other step changes title or
\* subtext.
C9_DirectEdit ==
    [][/\ last'.op = "handleSaveEdit" =>
             /\ props'.title =
                   IF editTitle = Str("") THEN Str("New Project") ELSE editTitle
             /\ props'.subtext =
                   IF editSubtext = Str("") THEN Str("Project description")
                   ELSE editSubtext
             /\ props'.coverImage = props.coverImage
             /\ props'.nestedContent = props.nestedContent
       /\ last'.op = "handleSaveModalTitle" =>
             /\ props'.title =
                   IF editModalTitle = Str("") THEN Str("New Project")
                   ELSE editModalTitle
             /\ props'.subtext = props.subtext
             /\ props'.coverImage = props.coverImage
             /\ props'.nestedContent = props.nestedContent
       /\ last'.op = "handleCancelEdit" =>
             /\ props' = props
             /\ editTitle' = props.title
             /\ editSubtext' = props.subtext
       /\ last'.op = "handleCancelModalTitle" =>
             /\ props' = props
             /\ editModalTitle' = props.title
       /\ last'.op \notin {"handleSaveEdit", "handleSaveModalTitle"} =>
             /\ props'.title = props.title
             /\ props'.subtext = props.subtext]_vars

\* an empty title and subtext confirmed
C9_Witness ==
    /\ last.op = "handleSaveEdit"
    /\ editTitle = Str("") /\ editSubtext = Str("")
    /\ last.before.title = Str("Portfolio")
    /\ props.title = Str("New Project")
    /\ props.subtext = Str("Project description")

\* the two-block skeleton: a heading and a paragraph
Skeleton(title) ==
    <<Obj([type |-> Str("heading"),
           content |-> IF title = Str("") THEN Str("Project Title") ELSE title]),
      Obj([type |-> Str("paragraph"),
           content |-> Str("Start writing project details here...")])>>

\* all the tokens of a text are white space
IsBlank(text) == \A i \in 1..Len(text) : IsWs(text[i])

\* C10: opening a card leaves the parent's props as they were; the nested
\* session starts from the skeleton when nestedContent is empty, blank, not
\* valid JSON, no array or an empty array, and from the decoded sequence
\* otherwise.
C10_OpenStartsSession ==
    (last.op = "handleCardClick") =>
        LET text == props.nestedContent.v
            decoded == JSONparse(text)
        IN /\ open
           /\ props = last.before
           /\ nestedDoc =
                 IF \/ IsBlank(text)
                    \/ ~decoded.ok
                    \/ ~IsArray(decoded.val)
                    \/ decoded.val.v = <<>>
                 THEN Skeleton(props.title)
                 ELSE decoded.val.v

\* a card with an empty title opened on a nestedContent that is no JSON
C10_Witness ==
    /\ last.op = "handleCardClick"
    /\ props.title = Str("")
    /\ props.nestedContent = Text(<<TJunk>>)
    /\ nestedDoc[1].v["content"] = Str("Project Title")

\* a card opened on an encoded document
C10_WitnessDecoded ==
    /\ last.op = "handleCardClick"
    /\ props.nestedContent = Text(<<TWs>> \o EncodeDoc(DocChildImage) \o <<TWs>>)
    /\ nestedDoc = DocChildImage

-----------------------------------------------------------------------------
(* The export rendering pipeline of pdfExport.tsx.  A string is carried as *)
(* the sequence of its pieces, so that concatenation and trim() are        *)
(* computed; the piece " " is white space.                                 *)

\* the pieces of a string value; String(x) of another value is one piece
Pieces(x) ==
    CASE x.k = "string" -> IF x.v = "" THEN <<>> ELSE <<x.v>>
      [] x.k = "text" -> IF x.v = <<>> THEN <<>> ELSE <<"[json]">>
      [] OTHER -> <<"[value]">>

\* a test that takes only the empty string for empty
TrimIsEmpty_noTrim(text) == text = <<>>

\* text.trim() is the empty string
TrimIsEmpty(text) == \A i \in 1..Len(text) : text[i] = " "

TextOk(text) == [ok |-> TRUE, text |-> text]
TextThrow == [ok |-> FALSE, text |-> <<>>]

\* extractTextContent of pdfExport.tsx: the text, or the TypeError raised by
\* item.type on a null or undefined item
RECURSIVE extractTextContent(_)
RECURSIVE ExtractItems(_)
extractTextContent(content) ==
    IF ~Truthy(content) THEN TextOk(<<>>)
    ELSE IF TypeOf(content) = "string" THEN TextOk(Pieces(content))
    ELSE IF IsArray(content) THEN ExtractItems(content.v)
    ELSE TextOk(<<>>)

\* the callback of content.map in extractTextContent
ExtractItem(item) ==
    IF TypeOf(item) = "string" THEN TextOk(Pieces(item))
    ELSE IF Get(item, "type").k = "throw" THEN TextThrow
    ELSE IF IsStr(Get(item, "type"), "text") /\ Truthy(Get(item, "text"))
    THEN TextOk(Pieces(Get(item, "text")))
    ELSE IF IsStr(Get(item, "type"), "link") /\ Truthy(Get(item, "content"))
    THEN extractTextContent(Get(item, "content"))
    ELSE IF Truthy(Get(item, "content"))
    THEN extractTextContent(Get(item, "content"))
    ELSE TextOk(<<>>)

\* content.map(...).join("")
ExtractItems(items) ==
    IF items = <<>> THEN TextOk(<<>>)
    ELSE LET first == ExtractItem(Head(items))
             rest == ExtractItems(Tail(items))
         IN IF first.ok /\ rest.ok THEN TextOk(first.text \o rest.text)
            ELSE TextThrow

\* an output node: a react-pdf element with its style, text and children
Node(tag, style, attrs, text, n, src, kids) ==
    [tag |-> tag, style |-> style, attrs |-> attrs, text |-> text, n |-> n,
     src |-> src, kids |-> kids]

TextNode(style, text, kids) == Node("Text", style, {}, text, 0, Null, kids)
ViewNode(style, kids) == Node("View", style, {}, <<>>, 0, Null, kids)
ImageNode(style, src) == Node("Image", style, {}, <<>>, 0, src, <<>>)

\* textStyle of renderInlineContent, as attribute-value pairs
TextStyle(item) ==
    LET st == Get(item, "styles")
        hasStyles == /\ Truthy(st)
                     /\ TypeOf(st) = "object"
                     /\ DOMAIN Entries(st) # {}
        on(flag) == hasStyles /\ IsTrue(Get(st, flag))
    IN (IF on("bold") THEN {<<"fontWeight", "bold">>} ELSE {})
       \cup (IF on("italic") THEN {<<"fontStyle", "italic">>} ELSE {})
       \cup (IF on("strikethrough") THEN {<<"textDecoration", "line-through">>}
             ELSE IF on("underline") THEN {<<"textDecoration", "underline">>}
             ELSE {})
       \cup (IF on("code")
             THEN {<<"fontFamily", "Courier">>, <<"backgroundColor", "#f5f5f5">>,
                   <<"padding", "2">>, <<"fontSize", "10">>}
             ELSE {})

\* renderInlineContent: the children it yields, null entries left out
RECURSIVE renderInlineContent(_)
RECURSIVE InlineItems(_)
renderInlineContent(content) ==
    IF ~Truthy(content) THEN <<>>
    ELSE IF TypeOf(content) = "string"
    THEN <<Node("#text", "", {}, Pieces(content), 0, Null, <<>>)>>
    ELSE IF IsArray(content) THEN InlineItems(content.v)
    ELSE <<Node("#value", "", {}, <<>>, 0, Null, <<>>)>>

\* the callback of content.map in renderInlineContent
InlineItem(item) ==
    IF ~Truthy(item) THEN <<>>
    ELSE IF TypeOf(item) = "string" THEN <<TextNode("", Pieces(item), <<>>)>>
    ELSE IF IsStr(Get(item, "type"), "text")
    THEN LET text == Get(item, "text")
         IN <<Node("Text", "", TextStyle(item),
                   IF Truthy(text) THEN Pieces(text) ELSE <<>>, 0, Null, <<>>)>>
    ELSE IF IsStr(Get(item, "type"), "link")
    THEN LET href == Get(item, "href")
         IN <<Node("Link", "link", {}, <<>>, 0,
                   IF Truthy(href) /\ TypeOf(href) = "string" THEN href ELSE Str("#"),
                   renderInlineContent(Get(item, "content")))>>
    ELSE <<>>

InlineItems(items) ==
    IF items = <<>> THEN <<>>
    ELSE InlineItem(Head(items)) \o InlineItems(Tail(items))

RenderOk(nodes) == [ok |-> TRUE, nodes |-> nodes]
RenderThrow == [ok |-> FALSE, nodes |-> <<>>]

\* block.props?.key
OptProp(block, key) ==
    LET bp == Get(block, "props")
    IN IF bp.k \in {"null", "undefined"} THEN Undef ELSE Get(bp, key)

\* the heading style chosen from props.level
HeadingStyle(block) ==
    LET level == IF Truthy(OptProp(block, "level")) THEN OptProp(block, "level")
                 ELSE Num(1)
    IN IF IsNum(level, 1) THEN "heading1"
       ELSE IF IsNum(level, 2) THEN "heading2"
       ELSE "heading3"

\* an ordinal that ignores the position in the group
Ordinal_alwaysOne(listIndex) == 1

\* (listIndex || 0) + 1
Ordinal(listIndex) == IF Truthy(listIndex) THEN listIndex.v + 1 ELSE 1

\* a filter that keeps the paragraphs only
IsNestedBlock_paragraphsOnly(b) ==
    Truthy(b) /\ TypeOf(b) = "object" /\ IsStr(Get(b, "type"), "paragraph")

\* (b) => b && typeof b === "object" && b.type, the filter of a card's
\* parsed nested content
IsNestedBlock(b) ==
    Truthy(b) /\ TypeOf(b) = "object" /\ Truthy(Get(b, "type"))

\* the nested blocks of a projectCard: the filtered array, Null when
\* props.nestedContent is absent, does not parse or is not an array
NestedBlocks(block) ==
    LET nc == OptProp(block, "nestedContent")
        parsed == JSONparse(nc.v)
    IN IF ~Truthy(nc) \/ nc.k # "text" THEN Null
       ELSE IF parsed.ok /\ IsArray(parsed.val)
       THEN Arr(SelectSeq(parsed.val.v, IsNestedBlock))
       ELSE Null

\* renderBlock(block, index, listIndex): the node it returns (none for null)
\* or the error it raises; index is the React key only
RECURSIVE renderBlock(_, _)
RECURSIVE RenderChildren(_)
RECURSIVE RenderNested(_)

\* block.children && block.children.map((child, idx) => renderBlock(child, idx))
ChildNodes(block) ==
    LET c == Get(block, "children")
    IN IF ~Truthy(c) THEN RenderOk(<<>>)
       ELSE IF IsArray(c) THEN RenderChildren(c.v)
       ELSE RenderThrow

\* the list item container shared by bulletListItem and numberedListItem
ListItem(block, bullet, n) ==
    LET kids == ChildNodes(block)
    IN IF ~kids.ok THEN RenderThrow
       ELSE RenderOk(<<ViewNode("listItem",
                <<Node("Text", "listItemBullet", {}, bullet, n, Null, <<>>),
                  ViewNode("listItemText",
                      <<TextNode("", <<>>, renderInlineContent(Get(block, "content")))>>
                      \o kids.nodes)>>)>>)

\* case "projectCard"
ProjectCardNode(block) ==
    LET title == IF Truthy(OptProp(block, "title")) THEN OptProp(block, "title")
                 ELSE Str("Untitled Project")
        coverImage == OptProp(block, "coverImage")
        nestedContent == NestedBlocks(block)
    IN ViewNode("projectCard",
           <<TextNode("projectCardTitle", Pieces(title), <<>>)>>
           \o (IF Truthy(coverImage) /\ TypeOf(coverImage) = "string"
                  /\ ~TrimIsEmpty(Pieces(coverImage))
               THEN <<ImageNode("projectCardImage", coverImage)>> ELSE <<>>)
           \o (IF Truthy(nestedContent) /\ Len(nestedContent.v) > 0
               THEN <<ViewNode("projectCardContent", RenderNested(nestedContent.v))>>
               ELSE <<>>))

renderBlock(block, listIndex) ==
    IF ~Truthy(block) \/ ~Truthy(Get(block, "type")) THEN RenderOk(<<>>)
    ELSE LET type == Get(block, "type")
             text == extractTextContent(Get(block, "content"))
             inline == renderInlineContent(Get(block, "content"))
         IN CASE IsStr(type, "heading") ->
                    RenderOk(<<TextNode(HeadingStyle(block), <<>>, inline)>>)
              [] IsStr(type, "paragraph") ->
                    IF ~text.ok THEN RenderThrow
                    ELSE IF TrimIsEmpty(text.text)
                    THEN RenderOk(<<ViewNode("spacer", <<>>)>>)
                    ELSE RenderOk(<<TextNode("paragraph", <<>>, inline)>>)
              [] IsStr(type, "bulletListItem") -> ListItem(block, <<"bullet">>, 0)
              [] IsStr(type, "numberedListItem") ->
                    ListItem(block, <<".">>, Ordinal(listIndex))
              [] IsStr(type, "image") ->
                    LET url == OptProp(block, "url")
                        caption == OptProp(block, "caption")
                    IN IF ~Truthy(url) THEN RenderOk(<<>>)
                       ELSE RenderOk(<<ViewNode("",
                               <<ImageNode("image", url)>>
                               \o (IF Truthy(caption)
                                   THEN <<TextNode("caption", Pieces(caption), <<>>)>>
                                   ELSE <<>>))>>)
              [] IsStr(type, "codeBlock") ->
                    IF ~text.ok THEN RenderThrow
                    ELSE RenderOk(<<ViewNode("codeBlock",
                                     <<TextNode("courier", text.text, <<>>)>>)>>)
              [] IsStr(type, "quote") ->
                    RenderOk(<<ViewNode("quote", <<TextNode("", <<>>, inline)>>)>>)
              [] IsStr(type, "divider") -> RenderOk(<<ViewNode("divider", <<>>)>>)
              [] IsStr(type, "projectCard") -> RenderOk(<<ProjectCardNode(block)>>)
              [] OTHER ->
                    IF ~text.ok THEN RenderThrow
                    ELSE IF ~TrimIsEmpty(text.text)
                    THEN RenderOk(<<TextNode("paragraph", text.text, <<>>)>>)
                    ELSE RenderOk(<<>>)

\* children.map: every child is rendered with no listIndex; an error raised
\* for one child leaves the map
RenderChildren(cs) ==
    IF cs = <<>> THEN RenderOk(<<>>)
    ELSE LET first == renderBlock(Head(cs), Undef)
             rest == RenderChildren(Tail(cs))
         IN IF first.ok /\ rest.ok THEN RenderOk(first.nodes \o rest.nodes)
            ELSE RenderThrow

\* nestedContent.map with its try/catch: a nested block that raises renders
\* as null
RenderNested(bs) ==
    IF bs = <<>> THEN <<>>
    ELSE LET first == renderBlock(Head(bs), Undef)
         IN (IF first.ok THEN first.nodes ELSE <<>>) \o RenderNested(Tail(bs))

\* findFirstImage of pdfExport.tsx: as the one of ProjectCard.tsx, with the
\* Array.isArray test on its argument
RECURSIVE findFirstImage_pdfExport(_)
RECURSIVE FirstImageFrom(_)
findFirstImage_pdfExport(doc) ==
    IF ~IsArray(doc) THEN Str("") ELSE FirstImageFrom(doc.v)

\* the for loop of findFirstImage in pdfExport.tsx, from its current node on
FirstImageFrom(nodes) ==
    IF nodes = <<>> THEN Str("")
    ELSE LET node == Head(nodes)
             content == Get(node, "content")
             nested == IF Truthy(content) /\ IsArray(content)
                       THEN findFirstImage_pdfExport(content) ELSE Str("")
         IN IF Get(node, "type").k = "throw" THEN Thrown
            ELSE IF IsStr(Get(node, "type"), "image") /\ Truthy(OptUrl(node))
            THEN OptUrl(node)
            ELSE IF nested.k = "throw" THEN Thrown
            ELSE IF Truthy(nested) THEN nested
            ELSE FirstImageFrom(Tail(nodes))

\* the synthetic container the grouping pass makes of a run of numbered items
NumberedList(items) == Obj([type |-> Str("numberedList"), items |-> Arr(items)])

GroupOk(blocks) == [ok |-> TRUE, blocks |-> blocks]
GroupThrow == [ok |-> FALSE, blocks |-> <<>>]

\* flush of the accumulated numbered list items
Flush(numberedListItems) ==
    IF Len(numberedListItems) > 0 THEN <<NumberedList(numberedListItems)>> ELSE <<>>

\* the grouping pass of PDFDocument: document.forEach and the final flush;
\* block.type of a null or undefined entry raises
RECURSIVE GroupPass(_, _, _)
GroupPass(doc, processed, numberedListItems) ==
    IF doc = <<>> THEN GroupOk(processed \o Flush(numberedListItems))
    ELSE LET block == Head(doc)
         IN IF Get(block, "type").k = "throw" THEN GroupThrow
            ELSE IF IsStr(Get(block, "type"), "numberedListItem")
            THEN GroupPass(Tail(doc), processed, Append(numberedListItems, block))
            ELSE GroupPass(Tail(doc),
                           processed \o Flush(numberedListItems) \o <<block>>, <<>>)

\* block.items.map((item, itemIndex) => renderBlock(item, itemIndex, itemIndex))
RECURSIVE RenderItems(_, _)
RenderItems(items, itemIndex) ==
    IF itemIndex >= Len(items) THEN RenderOk(<<>>)
    ELSE LET first == renderBlock(items[itemIndex + 1], Num(itemIndex))
             rest == RenderItems(items, itemIndex + 1)
         IN IF first.ok /\ rest.ok THEN RenderOk(first.nodes \o rest.nodes)
            ELSE RenderThrow

\* the callback of processedBlocks.map in PDFDocument
RenderProcessed(block) ==
    IF IsStr(Get(block, "type"), "numberedList")
    THEN LET items == Get(block, "items")
             rendered == RenderItems(items.v, 0)
         IN IF ~IsArray(items) \/ ~rendered.ok THEN RenderThrow
            ELSE RenderOk(<<ViewNode("numberedList", rendered.nodes)>>)
    ELSE renderBlock(block, Undef)

\* the title node and the footer node of the page
TitleNode == TextNode("heading1", <<"My Portfolio">>, <<>>)
FooterNode == ViewNode("footer", <<TextNode("", <<"Exported on">>, <<>>)>>)

-----------------------------------------------------------------------------
(* The documents given to the pipeline: every sequence of at most          *)
(* MaxBlocks blocks of the kinds below, further blocks one at a time and   *)
(* between two numbered items, and every forest of at most MaxNodes image  *)
(* and paragraph nodes nested through content or through children.        *)

MaxBlocks == 4

Numbered(text) == Obj([type |-> Str("numberedListItem"), content |-> Arr(<<Str(text)>>)])
Bullet(text) == Obj([type |-> Str("bulletListItem"), content |-> Arr(<<Str(text)>>)])
\* a paragraph whose content array holds a null entry
ParagraphNull == Obj([type |-> Str("paragraph"), content |-> Arr(<<Null>>)])
Unknown(content) == Obj([type |-> Str("madeUpType"), content |-> content])
UnknownNoContent == Obj([type |-> Str("madeUpType")])
\* a card whose nested content holds two numbered items, a bullet item and a
\* paragraph that raises
CardNested ==
    Obj([type |-> Str("projectCard"),
         props |-> Obj([title |-> Str("Portfolio"), coverImage |-> Str("x.png"),
                        nestedContent |->
                            Text(EncodeDoc(<<Numbered("A"), Numbered("B"),
                                             ParagraphNull, Bullet("C")>>))])])

SequenceBlocks ==
    {Numbered("A"), Bullet("C"), Paragraph("Body"), ParagraphNull,
     Unknown(Str("hello")), UnknownNoContent, CardNested}

FurtherBlocks ==
    {Obj([type |-> Str("paragraph"), content |-> Str(" ")]),
     Obj([type |-> Str("paragraph"), content |-> Arr(<<>>)]),
     Unknown(Str(" ")), Unknown(Str("")), Unknown(Arr(<<>>)), Unknown(EmptyObj),
     Unknown(Arr(<<TextSpan, Str(" "),
                   Obj([type |-> Str("link"), href |-> Str("u"),
                        content |-> Arr(<<TextSpan>>)])>>)),
     Unknown(Arr(<<Str(" "), Obj([type |-> Str("text"), text |-> Str("")])>>)),
     Unknown(Arr(<<TextSpan, Undef>>)),
     Obj([type |-> Num(1), content |-> Str("text")]),
     Obj([type |-> Str("numberedList"), content |-> Str("hello")]),
     Obj([type |-> Str("divider")]),
     Obj([type |-> Str("quote"), content |-> Arr(<<TextSpan>>)]),
     Obj([type |-> Str("codeBlock"), content |-> Arr(<<TextSpan>>)]),
     Obj([type |-> Str("codeBlock"), content |-> Arr(<<Null>>)]),
     Obj([type |-> Str("heading"), props |-> Obj([level |-> Num(2)]),
          content |-> Arr(<<Obj([type |-> Str("text"), text |-> Str("Title"),
                                 styles |-> Obj([bold |-> Bool(TRUE),
                                                 underline |-> Bool(TRUE),
                                                 strikethrough |-> Bool(TRUE)])])>>)]),
     Obj([type |-> Str("image"), props |-> Obj([url |-> Str("x.png"),
                                                caption |-> Str("fig")])]),
     Image(""),
     Obj([type |-> Str("numberedListItem"), content |-> Arr(<<Str("A")>>),
          children |-> Arr(<<Numbered("a"), Numbered("b")>>)]),
     Obj([type |-> Str("bulletListItem"), children |-> Str("c")]),
     Obj([type |-> Str("projectCard"),
          props |-> Obj([nestedContent |-> Text(<<TJunk>>)])])}

\* the documents of a heading, a paragraph and an image with a URL
RoundTripDocs ==
    {<<Heading(h), Paragraph(b), Image(u)>> :
        h \in {"Title", "Intro"}, b \in {"Body", "More"}, u \in {"x.png", "y.png"}}

\* a card after the onChange handler of its nested editor has written the
\* nested document doc to its props
SyncedCard(doc) ==
    LET p == [title |-> Str("Portfolio"), subtext |-> Str("About"),
              coverImage |-> Str(""), nestedContent |-> Text(<<>>)]
        synced == UpdateBlock(p, SyncedProps(p, doc))
    IN Obj([type |-> Str("projectCard"),
            props |-> Obj([k \in DOMAIN synced |-> synced[k]])])

RECURSIVE BlockSeqs(_)
BlockSeqs(n) ==
    IF n = 0 THEN {<<>>}
    ELSE {<<b>> \o r : b \in SequenceBlocks, r \in BlockSeqs(n - 1)}

ImageLabels ==
    {[type |-> Str("image"), props |-> Obj([url |-> Str("a.png")])],
     [type |-> Str("image"), props |-> Obj([url |-> Str("b.png")])],
     [type |-> Str("image"), props |-> Obj([url |-> Str("")])],
     [type |-> Str("paragraph")]}

MkNode(l, axis, c) == IF c = <<>> THEN Obj(l) ELSE Obj(l @@ (axis :> Arr(c)))

\* the forests of n nodes in all, each nested through content or children
RECURSIVE ImageForests(_)
ImageForests(n) ==
    IF n = 0 THEN {<<>>}
    ELSE UNION {{<<MkNode(l, axis, c)>> \o r :
                    l \in ImageLabels, axis \in {"content", "children"},
                    c \in ImageForests(a), r \in ImageForests(n - 1 - a)} :
                a \in 0..(n - 1)}

PdfInputs(maxBlocks, maxNodes) ==
    UNION {BlockSeqs(n) : n \in 0..maxBlocks}
    \cup {<<b>> : b \in FurtherBlocks}
    \cup {<<Numbered("A"), b, Numbered("D")>> : b \in FurtherBlocks}
    \cup {<<SyncedCard(d)>> : d \in RoundTripDocs}
    \cup {<<SyncedCard(d), Paragraph("Body")>> : d \in RoundTripDocs}
    \cup UNION {ImageForests(n) : n \in 1..maxNodes}

-----------------------------------------------------------------------------
(* The pipeline as a state machine: the tree search, the grouping pass,    *)
(* the rendering of the processed blocks one after the other, the page.    *)

InitPdf ==
    /\ pdfDocument \in PdfInputs(MaxBlocks, MaxNodes)
    /\ processedBlocks = <<>>
    /\ cursor = 0
    /\ outputNodes = <<>>
    /\ pdfPc = "search"
    /\ coverUrl = Null
    /\ pdfCoverUrl = Null
    /\ SanitizeAtRest
    /\ CardAtRest
    /\ EditorAtRest

\* findFirstImage applied to the document, by both of its copies
SearchImage ==
    /\ pdfPc = "search"
    /\ coverUrl' = findFirstImage(pdfDocument)
    /\ pdfCoverUrl' = findFirstImage_pdfExport(Arr(pdfDocument))
    /\ pdfPc' = "group"
    /\ UNCHANGED <<pdfDocument, processedBlocks, cursor, outputNodes>>
    /\ UNCHANGED <<sanVars, cardVars, edVars>>

\* the grouping pass of PDFDocument
GroupBlocks ==
    /\ pdfPc = "group"
    /\ LET grouped == GroupPass(pdfDocument, <<>>, <<>>)
       IN /\ processedBlocks' = grouped.blocks
          /\ pdfPc' = IF grouped.ok THEN "render" ELSE "aborted"
    /\ UNCHANGED <<pdfDocument, cursor, outputNodes, coverUrl, pdfCoverUrl>>
    /\ UNCHANGED <<sanVars, cardVars, edVars>>

\* one call of the callback of processedBlocks.map; an error it raises
\* leaves PDFDocument
RenderNextBlock ==
    /\ pdfPc = "render"
    /\ cursor < Len(processedBlocks)
    /\ LET rendered == RenderProcessed(processedBlocks[cursor + 1])
       IN IF rendered.ok
          THEN /\ outputNodes' = Append(outputNodes, rendered.nodes)
               /\ cursor' = cursor + 1
               /\ pdfPc' = pdfPc
          ELSE /\ pdfPc' = "aborted"
               /\ UNCHANGED <<outputNodes, cursor>>
    /\ UNCHANGED <<pdfDocument, processedBlocks, coverUrl, pdfCoverUrl>>
    /\ UNCHANGED <<sanVars, cardVars, edVars>>

\* the page: the title node, the rendered blocks, the footer node
FinishDocument ==
    /\ pdfPc = "render"
    /\ cursor = Len(processedBlocks)
    /\ outputNodes' = <<<<TitleNode>>>> \o outputNodes \o <<<<FooterNode>>>>
    /\ pdfPc' = "done"
    /\ UNCHANGED <<pdfDocument, processedBlocks, cursor, coverUrl, pdfCoverUrl>>
    /\ UNCHANGED <<sanVars, cardVars, edVars>>

NextPdf ==
    \/ SearchImage
    \/ GroupBlocks
    \/ RenderNextBlock
    \/ FinishDocument

SpecPdf == InitPdf /\ [][NextPdf]_vars

-----------------------------------------------------------------------------
(* Properties of the tree search and of the rendering pipeline.            *)

\* the nodes of a document in depth-first, left-to-right order over the
\* content axis
RECURSIVE ContentOrder(_)
ContentOrder(nodes) ==
    IF nodes = <<>> THEN <<>>
    ELSE LET node == Head(nodes)
             inner == IF node.k = "object" /\ "content" \in DOMAIN node.v
                         /\ node.v["content"].k = "array"
                      THEN ContentOrder(node.v["content"].v) ELSE <<>>
         IN <<node>> \o inner \o ContentOrder(Tail(nodes))

\* an image node that carries a non-empty url
IsImageWithUrl(node) ==
    /\ node.k = "object"
    /\ "type" \in DOMAIN node.v /\ node.v["type"] = Str("image")
    /\ "props" \in DOMAIN node.v /\ node.v["props"].k = "object"
    /\ "url" \in DOMAIN node.v["props"].v
    /\ node.v["props"].v["url"].k = "string"
    /\ node.v["props"].v["url"].v # ""

\* the url of the first such node of a sequence, "" if there is none
FirstUrl(nodes) ==
    LET idx == {i \in 1..Len(nodes) : IsImageWithUrl(nodes[i])}
    IN IF idx = {} THEN Str("")
       ELSE nodes[CHOOSE i \in idx : \A j \in idx : i <= j].v["props"].v["url"]

\* every node on the content axis is an object or a string
ContentAxisWellFormed(nodes) ==
    \A i \in 1..Len(ContentOrder(nodes)) :
        ContentOrder(nodes)[i].k \in {"object", "string"}

C11_WitnessNone ==
    /\ pdfPc # "search"
    /\ pdfDocument =
         <<Obj([type |-> Str("paragraph"), children |-> Arr(<<Image("a.png")>>)])>>
    /\ coverUrl = Str("")

TypeIs(block, t) ==
    block.k = "object" /\ "type" \in DOMAIN block.v /\ block.v["type"] = Str(t)

\* 1 + the position of entry i within its run of numbered items
RunOrdinal(doc, i) ==
    LET before == {j \in 1..(i - 1) : ~TypeIs(doc[j], "numberedListItem")}
        last_ == IF before = {} THEN 0
                 ELSE CHOOSE j \in before : \A h \in before : h <= j
    IN i - last_

\* the ordinals expected for the numbered items of a document, in order
RECURSIVE ExpectedOrdinals(_, _)
ExpectedOrdinals(doc, i) ==
    IF i > Len(doc) THEN <<>>
    ELSE (IF TypeIs(doc[i], "numberedListItem") THEN <<RunOrdinal(doc, i)>> ELSE <<>>)
         \o ExpectedOrdinals(doc, i + 1)

\* the top-level nodes of the page with every ordered-list container
\* replaced by its items
RECURSIVE PageItems(_)
PageItems(out) ==
    IF out = <<>> THEN <<>>
    ELSE LET nodes == Head(out)
         IN (IF nodes # <<>> /\ nodes[1].style = "numberedList"
             THEN nodes[1].kids ELSE nodes)
            \o PageItems(Tail(out))

\* the ordinals of the list items among a sequence of nodes, 0 for a bullet
Ordinals(nodes) ==
    LET items == SelectSeq(nodes, LAMBDA x : x.style = "listItem")
    IN [i \in 1..Len(items) |-> items[i].kids[1].n]

IsBulletNode(x) == x.style = "listItem" /\ x.kids[1].text = <<"bullet">>

\* C12: on the finished page the numbered items of the top-level sequence
\* carry, in order, the ordinals 1 + position within their maximal run;
\* every bulletListItem is a top-level node of its own, outside the
\* ordered-list containers, and carries no ordinal
C12_NumberedRuns ==
    pdfPc = "done" =>
        /\ SelectSeq(Ordinals(PageItems(outputNodes)), LAMBDA n : n > 0)
              = ExpectedOrdinals(pdfDocument, 1)
        /\ \A i \in 1..Len(outputNodes) : \A j \in 1..Len(outputNodes[i]) :
              LET x == outputNodes[i][j]
              IN /\ x.style = "numberedList" =>
                        \A h \in 1..Len(x.kids) : ~IsBulletNode(x.kids[h])
                 /\ IsBulletNode(x) => x.kids[1].n = 0
        /\ Len(SelectSeq(PageItems(outputNodes), IsBulletNode))
              = Len(SelectSeq(pdfDocument, LAMBDA b : TypeIs(b, "bulletListItem")))
        /\ Len(SelectSeq(PageItems(outputNodes), IsBulletNode))
              = Cardinality({i \in 1..Len(outputNodes) :
                                outputNodes[i] # <<>> /\ IsBulletNode(outputNodes[i][1])})

\* numbered A, numbered B, something else, numbered D: ordinals 1, 2 and 1
C12_Witness ==
    /\ pdfPc = "done"
    /\ pdfDocument = <<Numbered("A"), Numbered("A"), Paragraph("Body"), Numbered("A")>>
    /\ Ordinals(PageItems(outputNodes)) = <<1, 2, 1>>
    /\ Len(outputNodes) = 5

\* C13: a block whose rendering raises is replaced by a placeholder and the
\* others are still rendered: the pipeline never aborts, and the finished
\* page holds one entry per processed block
C13_RenderFailureIsolated ==
    /\ pdfPc # "aborted"
    /\ pdfPc = "done" => Len(outputNodes) = Len(processedBlocks) + 2

RecognizedTypes ==
    {"heading", "paragraph", "bulletListItem", "numberedListItem", "image",
     "codeBlock", "quote", "divider", "projectCard"}

\* a block with a type that renderBlock has no case for (the type of the
\* ordered-list container of the grouping pass left aside)
IsUnknownBlock(block) ==
    /\ block.k = "object" /\ "type" \in DOMAIN block.v
    /\ Truthy(block.v["type"])
    /\ \A t \in RecognizedTypes \cup {"numberedList"} : ~TypeIs(block, t)

OnlyWhitespace(text) == \A i \in 1..Len(text) : text[i] = " "

C14_WitnessBlank ==
    /\ pdfPc = "done"
    /\ pdfDocument = <<Unknown(Str(" "))>>
    /\ outputNodes[2] = <<>>

-----------------------------------------------------------------------------
(* The editor component: storage.ts and BlockNoteEditor.tsx.  The value    *)
(* held by localStorage under STORAGE_KEY is Null when the key is absent   *)
(* and the stored string, as JSON tokens, otherwise.                       *)

MaxChanges == 2

\* localStorage.removeItem(STORAGE_KEY)
clearEditorContent(stored) == Null

LoadResult(value, stored, raised) ==
    [value |-> value, storage |-> stored, raised |-> raised]

\* a load that gives up on bad data without clearing it
loadEditorContent_keepsCorrupt(stored) == LoadResult(Null, stored, FALSE)

\* a load that removes the key whatever it holds
loadEditorContent_alwaysClears(stored) == LoadResult(Null, Null, FALSE)

\* loadEditorContent(): the value returned, the storage it leaves, and
\* whether an error reached the caller
loadEditorContent(stored) ==
    IF ~Truthy(stored) THEN LoadResult(Null, stored, FALSE)
    ELSE LET parsed == JSONparse(stored.v)
         IN IF ~parsed.ok THEN LoadResult(Null, clearEditorContent(stored), FALSE)
            ELSE IF ~IsArray(parsed.val)
            THEN LoadResult(Null, clearEditorContent(stored), FALSE)
            ELSE IF Len(parsed.val.v) = 0 THEN LoadResult(Null, stored, FALSE)
            ELSE LoadResult(parsed.val, stored, FALSE)

\* a save that writes nothing
saveEditorContent_noWrite(doc, stored) == stored

\* a save that stores an empty array whatever the document
saveEditorContent_writesEmpty(doc, stored) == Text(EncodeDoc(<<>>))

\* saveEditorContent(document): the storage it leaves; an error raised by
\* JSON.stringify is caught and nothing is written
saveEditorContent(doc, stored) ==
    LET serialized == JSONstringify(Arr(doc))
    IN IF serialized.st = "ok" THEN Text(serialized.toks) ELSE stored

defaultContent ==
    <<Obj([type |-> Str("paragraph"), content |-> Str("Press '/' and type: project")]),
      Obj([type |-> Str("paragraph"), content |-> Str("")])>>

\* an initial content that takes whatever the load returned
InitialContent_noDefault(savedContent) ==
    IF IsArray(savedContent) THEN savedContent.v ELSE <<>>

\* lines 70-86: the second validation of savedContent, and
\* savedContent || defaultContent
InitialContent(savedContent) ==
    LET saved == IF Truthy(savedContent)
                    /\ (~IsArray(savedContent) \/ Len(savedContent.v) = 0)
                 THEN Null ELSE savedContent
    IN IF Truthy(saved) THEN saved.v ELSE defaultContent

\* an export button that is never disabled
ExportEnabled_always(exporting) == TRUE

\* disabled={isExporting} of the Export PDF button
ExportEnabled(exporting) == ~exporting

\* a test that never finds the document empty
IsEmptyDocument_never(valid) == FALSE

\* validDocument.length === 0
IsEmptyDocument(valid) == Len(valid.v) = 0

\* a continuation that triggers the download whatever the renderer did
DownloadsAfter_ignoresRejection(resolved, count) == count + 1

\* lines 245-256: the downloads triggered once the promise of
\* pdf(pdfDoc).toBlob() has settled; a rejection goes to the catch clause
DownloadsAfter(resolved, count) == IF resolved THEN count + 1 ELSE count

\* the sanitize step of handleExportPDF applied to editor.document: the
\* message of the Error it raises ("" if none) and validDocument
SanitizeOutcome(raw) ==
    LET cloned == JsonClone(raw)
        valid == FilterAndSanitize(cloned.val)
    IN IF ~cloned.ok
       THEN [error |-> "Failed to serialize document", valid |-> Null]
       ELSE IF ~IsArray(cloned.val)
       THEN [error |-> "Invalid document format: expected array", valid |-> Null]
       ELSE IF valid.k = "throw" THEN [error |-> "TypeError", valid |-> Null]
       ELSE [error |-> "", valid |-> valid]

\* PDFDocument renders the whole document without raising
RECURSIVE AllRender(_)
AllRender(blocks) ==
    IF blocks = <<>> THEN TRUE
    ELSE RenderProcessed(Head(blocks)).ok /\ AllRender(Tail(blocks))

PageRenders(doc) ==
    LET grouped == GroupPass(doc, <<>>, <<>>)
    IN grouped.ok /\ AllRender(grouped.blocks)

\* the documents the live editor goes through
LiveDocs == {defaultContent, DocImage, <<>>, <<Obj(LNoType)>>}

\* what localStorage holds when the page is loaded: nothing, the empty
\* string, white space, no JSON, JSON that is no array, an empty array, and
\* arrays of blocks
StartStorage ==
    {Null} \cup
    {Text(t) : t \in {<<>>, <<TWs>>, <<TJunk>>, <<Tok("["), TStr("a")>>,
                      <<Tok("{"), Tok("}")>>, <<TNum(42)>>, <<Tok("["), Tok("]")>>,
                      EncodeDoc(DocImage),
                      <<TWs>> \o EncodeDoc(<<Obj(LNoType)>>)}}

-----------------------------------------------------------------------------
(* The editor component as a state machine.  Every render of the component *)
(* calls loadEditorContent (line 70), so the steps that set isExporting    *)
(* load once more.  alerts holds the messages of the export handler only.  *)

Alert(kind, detail) == [kind |-> kind, detail |-> detail]

\* a value thrown or given as the reason of a rejection: an Error object
\* with its message, or a value that is no Error object
Err(message) == [isError |-> TRUE, message |-> message]
NonError == [isError |-> FALSE, message |-> "reason"]

\* what the renderer may reject with
RendererErrors == {Err("renderer error"), NonError}

\* error instanceof Error ? error.message : "Unknown error"
FailureMessage(err) == IF err.isError THEN err.message ELSE "Unknown error"

\* a catch clause that throws the error on
CatchClause_rethrows(err) == [alerts |-> <<>>, escaped |-> TRUE]

\* the catch clause of handleExportPDF: the message it shows, and whether
\* the error leaves the handler
CatchClause(err) ==
    [alerts |-> <<Alert("failure", FailureMessage(err))>>, escaped |-> FALSE]

\* a finally clause that leaves the flag as it is
FlagAfterFinally_kept(exporting) == exporting

\* the finally clause of handleExportPDF: setIsExporting(false)
FlagAfterFinally(exporting) == FALSE

\* a handleChange that sets a timeout without clearing the one before
PendingAfterChange_noClear(pending) == pending + 1

\* clearTimeout(timeoutId): the timeout set last, if still pending, is gone
PendingAfterClear(pending) == IF pending > 0 THEN pending - 1 ELSE 0

\* handleChange: clearTimeout(timeoutId), then setTimeout
PendingAfterChange(pending) == PendingAfterClear(pending) + 1

\* whether saveEditorContent(document) returns true
saveEditorContentReturns(doc) == JSONstringify(Arr(doc)).st = "ok"

NoError == [caught |-> <<>>, escaped |-> FALSE]
NoStorageOp == [op |-> "none", doc |-> <<>>, ok |-> TRUE]

NoExport ==
    /\ isExporting = FALSE
    /\ exportPc = "idle"
    /\ exportRuns = 0
    /\ exportDoc = Null
    /\ requests = 0
    /\ downloads = 0
    /\ alerts = <<>>
    /\ atExportStart = [doc |-> <<>>, storage |-> Null]
    /\ exportError = NoError

InitEditor ==
    /\ storage \in StartStorage
    /\ mounted = FALSE
    /\ editorDoc = <<>>
    /\ initialContent = <<>>
    /\ loadRaised = FALSE
    /\ saveTimer = 0
    /\ changes = 0
    /\ NoExport
    /\ loadedContent = Null
    /\ lastStorageOp = NoStorageOp
    /\ step = "none"
    /\ SanitizeAtRest
    /\ CardAtRest
    /\ PdfAtRest

\* the first render: load, validate, create the editor, subscribe
Mount ==
    /\ ~mounted
    /\ LET loaded == loadEditorContent(storage)
       IN /\ storage' = loaded.storage
          /\ loadRaised' = loaded.raised
          /\ loadedContent' = loaded.value
          /\ initialContent' = InitialContent(loaded.value)
          /\ editorDoc' = InitialContent(loaded.value)
    /\ mounted' = TRUE
    /\ step' = IF loadEditorContent(storage).storage # storage
               THEN "MountCleared" ELSE "Mount"
    /\ UNCHANGED <<saveTimer, changes, isExporting, exportPc, exportRuns, exportDoc,
                   requests, downloads, alerts, atExportStart, exportError,
                   lastStorageOp>>
    /\ UNCHANGED <<sanVars, cardVars, pdfVars>>

\* the component unmounts while no export is running: the cleanup of the
\* auto-save effect clears the timeout and unsubscribes handleChange; the
\* state of the component and its editor are gone with it
Unmount ==
    /\ mounted
    /\ exportPc = "idle"
    /\ mounted' = FALSE
    /\ saveTimer' = PendingAfterClear(saveTimer)
    /\ editorDoc' = <<>>
    /\ initialContent' = <<>>
    /\ loadRaised' = FALSE
    /\ loadedContent' = Null
    /\ isExporting' = FALSE
    /\ exportRuns' = 0
    /\ exportDoc' = Null
    /\ requests' = 0
    /\ downloads' = 0
    /\ alerts' = <<>>
    /\ atExportStart' = [doc |-> <<>>, storage |-> Null]
    /\ exportError' = NoError
    /\ step' = "Unmount"
    /\ UNCHANGED <<storage, changes, exportPc, lastStorageOp>>
    /\ UNCHANGED <<sanVars, cardVars, pdfVars>>

\* the user changes the document; handleChange restarts the debounce timeout
EditorChange(doc) ==
    /\ mounted
    /\ changes < MaxChanges
    /\ doc # editorDoc
    /\ editorDoc' = doc
    /\ saveTimer' = PendingAfterChange(saveTimer)
    /\ changes' = changes + 1
    /\ step' = "EditorChange"
    /\ UNCHANGED <<storage, mounted, initialContent, loadRaised, isExporting,
                   exportPc, exportRuns, exportDoc, requests, downloads, alerts,
                   atExportStart, exportError, loadedContent, lastStorageOp>>
    /\ UNCHANGED <<sanVars, cardVars, pdfVars>>

\* a debounce timeout fires: saveEditorContent(editor.document)
AutoSaveFire ==
    /\ saveTimer > 0
    /\ storage' = saveEditorContent(editorDoc, storage)
    /\ lastStorageOp' = [op |-> "save", doc |-> editorDoc,
                         ok |-> saveEditorContentReturns(editorDoc)]
    /\ saveTimer' = saveTimer - 1
    /\ step' = "AutoSaveFire"
    /\ UNCHANGED <<mounted, editorDoc, initialContent, loadRaised, changes,
                   isExporting, exportPc, exportRuns, exportDoc, requests,
                   downloads, alerts, atExportStart, exportError, loadedContent>>
    /\ UNCHANGED <<sanVars, cardVars, pdfVars>>

handleManualSave ==
    /\ mounted
    /\ storage' = saveEditorContent(editorDoc, storage)
    /\ lastStorageOp' = [op |-> "save", doc |-> editorDoc,
                         ok |-> saveEditorContentReturns(editorDoc)]
    /\ step' = "handleManualSave"
    /\ UNCHANGED <<mounted, editorDoc, initialContent, loadRaised, saveTimer,
                   changes, isExporting, exportPc, exportRuns, exportDoc, requests,
                   downloads, alerts, atExportStart, exportError, loadedContent>>
    /\ UNCHANGED <<sanVars, cardVars, pdfVars>>

\* the user confirms: the key is removed and the page reloads, which ends
\* the component with its timeouts and any export in progress
handleClear ==
    /\ mounted
    /\ storage' = clearEditorContent(storage)
    /\ lastStorageOp' = [op |-> "clear", doc |-> <<>>, ok |-> TRUE]
    /\ mounted' = FALSE
    /\ editorDoc' = <<>>
    /\ initialContent' = <<>>
    /\ loadRaised' = FALSE
    /\ loadedContent' = Null
    /\ saveTimer' = 0
    /\ isExporting' = FALSE
    /\ exportPc' = "idle"
    /\ exportRuns' = 0
    /\ exportDoc' = Null
    /\ requests' = 0
    /\ downloads' = 0
    /\ alerts' = <<>>
    /\ atExportStart' = [doc |-> <<>>, storage |-> Null]
    /\ exportError' = NoError
    /\ step' = "handleClear"
    /\ UNCHANGED changes
    /\ UNCHANGED <<sanVars, cardVars, pdfVars>>

\* a click on the Export PDF button: handleExportPDF up to its first await
ExportClick ==
    /\ mounted
    /\ ExportEnabled(isExporting)
    /\ isExporting' = TRUE
    /\ exportRuns' = exportRuns + 1
    /\ exportPc' = "import"
    /\ exportDoc' = Null
    /\ requests' = 0
    /\ downloads' = 0
    /\ alerts' = <<>>
    /\ exportError' = NoError
    /\ atExportStart' = [doc |-> editorDoc, storage |-> storage]
    /\ storage' = loadEditorContent(storage).storage
    /\ step' = "ExportClick"
    /\ UNCHANGED <<mounted, editorDoc, initialContent, loadRaised, saveTimer,
                   changes, loadedContent, lastStorageOp>>
    /\ UNCHANGED <<sanVars, cardVars, pdfVars>>

\* the end of handleExportPDF: the messages shown, the finally clause and
\* the render that follows
ExportEnds(shown) ==
    /\ alerts' = alerts \o shown
    /\ isExporting' = FlagAfterFinally(isExporting)
    /\ exportRuns' = exportRuns - 1
    /\ exportPc' = "idle"
    /\ storage' = loadEditorContent(storage).storage
    /\ UNCHANGED <<mounted, editorDoc, initialContent, loadRaised, saveTimer,
                   changes, atExportStart, loadedContent, lastStorageOp>>

\* an error raised inside the try block: the catch clause, then the end
ExportFails(err) ==
    /\ ExportEnds(CatchClause(err).alerts)
    /\ exportError' = [caught |-> <<err>>, escaped |-> CatchClause(err).escaped]

\* the two dynamic imports resolve, or one of them rejects
ImportLibraries ==
    /\ exportPc = "import"
    /\ \/ /\ exportPc' = "sanitize"
          /\ step' = "ImportLibraries"
          /\ UNCHANGED <<storage, mounted, editorDoc, initialContent, loadRaised,
                         saveTimer, changes, isExporting, exportRuns, exportDoc,
                         requests, downloads, alerts, atExportStart, exportError,
                         loadedContent, lastStorageOp>>
       \/ /\ ExportFails(Err("import failed"))
          /\ step' = "ImportFails"
          /\ UNCHANGED <<exportDoc, requests, downloads>>
    /\ UNCHANGED <<sanVars, cardVars, pdfVars>>

\* lines 171-245: the sanitize step on editor.document, the empty-document
\* notice, and the request to pdf(pdfDoc).toBlob()
SanitizeAndRequest ==
    /\ exportPc = "sanitize"
    /\ LET outcome == SanitizeOutcome(Arr(editorDoc))
       IN IF outcome.error # ""
          THEN /\ ExportFails(Err(outcome.error))
               /\ step' = "SanitizeFails"
               /\ UNCHANGED <<exportDoc, requests, downloads>>
          ELSE IF IsEmptyDocument(outcome.valid)
          THEN /\ ExportEnds(<<Alert("notice", "No content to export")>>)
               /\ exportDoc' = outcome.valid
               /\ step' = "NothingToExport"
               /\ UNCHANGED <<requests, downloads, exportError>>
          ELSE /\ exportDoc' = outcome.valid
               /\ requests' = requests + 1
               /\ exportPc' = "render"
               /\ step' = "RendererRequested"
               /\ UNCHANGED <<storage, mounted, editorDoc, initialContent,
                              loadRaised, saveTimer, changes, isExporting,
                              exportRuns, downloads, alerts, atExportStart,
                              exportError, loadedContent, lastStorageOp>>
    /\ UNCHANGED <<sanVars, cardVars, pdfVars>>

\* lines 245-261: the renderer yields the blob and the download is
\* triggered, or it rejects (always so when PDFDocument raises)
RendererSettles ==
    /\ exportPc = "render"
    /\ \/ /\ PageRenders(exportDoc.v)
          /\ downloads' = DownloadsAfter(TRUE, downloads)
          /\ ExportEnds(<<Alert("success", "PDF exported successfully")>>)
          /\ step' = "Downloaded"
          /\ UNCHANGED <<exportDoc, requests, exportError>>
       \/ /\ \E err \in RendererErrors : ExportFails(err)
          /\ downloads' = DownloadsAfter(FALSE, downloads)
          /\ step' = "RendererFails"
          /\ UNCHANGED <<exportDoc, requests>>
    /\ UNCHANGED <<sanVars, cardVars, pdfVars>>

NextEditor ==
    \/ Mount
    \/ Unmount
    \/ \E doc \in LiveDocs : EditorChange(doc)
    \/ AutoSaveFire
    \/ handleManualSave
    \/ handleClear
    \/ ExportClick
    \/ ImportLibraries
    \/ SanitizeAndRequest
    \/ RendererSettles

SpecEditor == InitEditor /\ [][NextEditor]_vars

\* a step of AutoSaveFire: the only step from a state with a pending
\* timeout that records its name; enabled exactly when AutoSaveFire is
TimeoutFires == saveTimer > 0 /\ step' = "AutoSaveFire"

\* the event loop runs every timeout that is due
SpecEditorFair == SpecEditor /\ WF_step(TimeoutFires)

\* a step of the running export handler past one of its awaits: the steps
\* of ImportLibraries, SanitizeAndRequest and RendererSettles are the only
\* ones that record these names
ExportAdvances ==
    /\ exportPc # "idle"
    /\ step' \in {"ImportLibraries", "ImportFails", "SanitizeFails",
                  "NothingToExport", "RendererRequested", "Downloaded",
                  "RendererFails"}

\* every promise the export handler awaits settles, and the handler is then
\* resumed
SpecExportFair == SpecEditor /\ WF_step(ExportAdvances)

-----------------------------------------------------------------------------
(* Properties of the editor component.                                     *)

\* C15: when the sanitized document is empty the export shows the
\* nothing-to-export notice and nothing else, makes no request to the
\* renderer and triggers no download; a request is made for a non-empty
\* document only
C15_EmptyDocumentNotice ==
    /\ (exportDoc.k = "array" /\ exportDoc.v = <<>>)
          => /\ alerts = <<Alert("notice", "No content to export")>>
             /\ requests = 0
             /\ downloads = 0
             /\ exportPc = "idle"
    /\ requests > 0 => (exportDoc.k = "array" /\ exportDoc.v # <<>>)

\* the export of a document whose only entry has no type ended in the notice
C15_Witness ==
    /\ step = "NothingToExport"
    /\ editorDoc = <<Obj(LNoType)>>
    /\ exportDoc = Arr(<<>>)
    /\ alerts = <<Alert("notice", "No content to export")>>
    /\ ~isExporting

ExportSteps ==
    {"ExportClick", "ImportLibraries", "ImportFails", "SanitizeFails",
     "NothingToExport", "RendererRequested", "Downloaded", "RendererFails"}

\* C17: no step of the export handler, whatever its outcome, changes the
\* live document or the stored value
C17_ExportReadOnly ==
    [][step' \in ExportSteps => (editorDoc' = editorDoc /\ storage' = storage)]_vars

\* an export ended in a download with the document and a stored value as
\* they were when it began
C17_Witness ==
    /\ step = "Downloaded"
    /\ storage # Null
    /\ editorDoc = atExportStart.doc
    /\ storage = atExportStart.storage

\* an export ended in a failure with the document as it was when it began
C17_WitnessFailure ==
    /\ step = "RendererFails"
    /\ editorDoc = atExportStart.doc
    /\ storage = atExportStart.storage

\* the stored string does not decode to an array
Undecodable(stored) ==
    stored # Null /\ (~JSONparse(stored.v).ok \/ JSONparse(stored.v).val.k # "array")

LoadedAtMount == step' \in {"Mount", "MountCleared"}

\* C18 as stated: whenever the stored string fails to decode or decodes to
\* no array, the load returns null, removes the key and raises nothing
C18_LoadSelfClears ==
    [][(LoadedAtMount /\ Undecodable(storage))
          => /\ loadEditorContent(storage).value = Null
             /\ storage' = Null
             /\ ~loadRaised']_vars

\* C18: whenever the stored string is not empty and fails to decode or
\* decodes to no array, the load returns null, removes the key and raises
\* nothing; for the empty string it returns null and leaves the key; in
\* both cases a load that follows returns null and changes nothing
C18_LoadSelfClearsNonEmpty ==
    [][(LoadedAtMount /\ Undecodable(storage))
          => /\ loadEditorContent(storage).value = Null
             /\ ~loadRaised'
             /\ storage' = IF storage.v = <<>> THEN storage ELSE Null
             /\ loadEditorContent(storage').value = Null
             /\ loadEditorContent(storage').storage = storage']_vars

\* a load found bad data and removed the key
C18_Witness ==
    /\ step = "MountCleared"
    /\ storage = Null
    /\ initialContent = defaultContent
    /\ ~loadRaised

\* C19: the editor is created with the stored array when the stored string
\* decodes to a non-empty array and with the default content otherwise; its
\* initial content is never empty and the load raises nothing
C19_InitialContent ==
    [][LoadedAtMount
          => /\ initialContent' =
                   IF storage # Null /\ ~Undecodable(storage)
                      /\ JSONparse(storage.v).val.v # <<>>
                   THEN JSONparse(storage.v).val.v
                   ELSE <<Obj([type |-> Str("paragraph"),
                               content |-> Str("Press '/' and type: project")]),
                          Obj([type |-> Str("paragraph"), content |-> Str("")])>>
             /\ initialContent' # <<>>
             /\ editorDoc' = initialContent'
             /\ ~loadRaised']_vars

\* bad data was replaced by the default content
C19_Witness ==
    /\ step = "MountCleared"
    /\ Len(initialContent) = 2
    /\ initialContent[1].v["content"] = Str("Press '/' and type: project")
    /\ editorDoc = initialContent

\* a stored document reached the editor
C19_WitnessStored ==
    /\ step = "Mount"
    /\ storage = Text(EncodeDoc(DocImage))
    /\ initialContent = DocImage

\* C20: every auto-save write stores the serialization of the document as
\* it is when the timeout fires; and once a timeout is pending, unless a
\* further change or a reload comes, the stored value eventually equals the
\* serialization of the current document
C20_AutoSaveLatest ==
    /\ [][step' = "AutoSaveFire"
             => storage' = Text(JSONstringify(Arr(editorDoc')).toks)]_vars
    /\ \A n \in 0..MaxChanges :
          (mounted /\ saveTimer > 0 /\ changes = n)
             ~> \/ (mounted /\ storage = Text(JSONstringify(Arr(editorDoc)).toks))
                \/ changes > n
                \/ ~mounted

\* the last change allowed was saved by the timeout
C20_Witness ==
    /\ step = "AutoSaveFire"
    /\ changes = MaxChanges
    /\ editorDoc = DocImage
    /\ storage = Text(EncodeDoc(DocImage))
    /\ saveTimer = 0

-----------------------------------------------------------------------------
(* The nested content of a card, from the nested editor to the page.       *)

\* the text a node shows: its own text and the text of the nodes inside it
RECURSIVE NodeText(_)
RECURSIVE KidsText(_)
NodeText(node) == node.text \o KidsText(node.kids)
KidsText(kids) ==
    IF kids = <<>> THEN <<>> ELSE NodeText(Head(kids)) \o KidsText(Tail(kids))

\* the src of the Image nodes of a node, in order
RECURSIVE NodeImages(_)
RECURSIVE KidsImages(_)
NodeImages(node) ==
    (IF node.tag = "Image" THEN <<node.src>> ELSE <<>>) \o KidsImages(node.kids)
KidsImages(kids) ==
    IF kids = <<>> THEN <<>> ELSE NodeImages(Head(kids)) \o KidsImages(Tail(kids))

HeadingStyles == {"heading1", "heading2", "heading3"}

\* the cards of the documents of a heading, a paragraph and an image
RoundTripCards == [d \in RoundTripDocs |-> SyncedCard(d)]

\* C21: a card whose nestedContent the nested editor encoded from a heading,
\* a paragraph and an image with a URL renders as one card container whose
\* content holds, in this order, one heading node with the heading text,
\* one paragraph node with the paragraph text and one image node whose src
\* is the URL
C21_NestedRoundTrip ==
    LET offset == IF pdfPc = "done" THEN 1 ELSE 0
    IN \A i \in 1..cursor : \A d \in RoundTripDocs :
          processedBlocks[i] = RoundTripCards[d] =>
              LET nodes == outputNodes[i + offset]
                  card == nodes[1]
                  inner == card.kids[Len(card.kids)]
              IN /\ Len(nodes) = 1
                 /\ card.tag = "View" /\ card.style = "projectCard"
                 /\ inner.tag = "View" /\ inner.style = "projectCardContent"
                 /\ Len(inner.kids) = 3
                 /\ inner.kids[1].tag = "Text"
                 /\ inner.kids[1].style \in HeadingStyles
                 /\ Str(NodeText(inner.kids[1])[1]) = d[1].v["content"].v[1]
                 /\ Len(NodeText(inner.kids[1])) = 1
                 /\ NodeImages(inner.kids[1]) = <<>>
                 /\ inner.kids[2].tag = "Text"
                 /\ inner.kids[2].style = "paragraph"
                 /\ Str(NodeText(inner.kids[2])[1]) = d[2].v["content"].v[1]
                 /\ Len(NodeText(inner.kids[2])) = 1
                 /\ NodeImages(inner.kids[2]) = <<>>
                 /\ NodeImages(inner.kids[3]) = <<d[3].v["props"].v["url"]>>
                 /\ NodeText(inner.kids[3]) = <<>>

\* the card of the heading "Title", the paragraph "Body" and the image
\* "x.png" is on the finished page
C21_Witness ==
    /\ pdfPc = "done"
    /\ pdfDocument = <<SyncedCard(DocImage)>>
    /\ NodeText(outputNodes[2][1].kids[3]) = <<"Title", "Body">>
    /\ NodeImages(outputNodes[2][1].kids[3]) = <<Str("x.png")>>

\* the ordinals of the numbered items among the nodes rendered for the
\* nested blocks of a card node, or for the children of a list item node
NestedOrdinals(node) ==
    LET inner == node.kids[Len(node.kids)]
        below == IF node.style = "projectCard"
                 THEN (IF inner.style = "projectCardContent" THEN inner.kids ELSE <<>>)
                 ELSE Tail(inner.kids)
    IN SelectSeq(Ordinals(below), LAMBDA n : n > 0)

\* the blocks rendered below a block: the decoded nested content of a card,
\* the children of a list item
BlocksBelow(block) ==
    IF TypeIs(block, "projectCard")
    THEN (IF IsArray(NestedBlocks(block)) THEN NestedBlocks(block).v ELSE <<>>)
    ELSE IF IsArray(Get(block, "children")) THEN Get(block, "children").v
    ELSE <<>>

\* C23: the numbered items rendered inside a card's nested content or as
\* children of a list item carry, in order, the ordinals 1 + position within
\* their run of numbered siblings, as the top-level items do
C23_NestedOrdinals ==
    LET offset == IF pdfPc = "done" THEN 1 ELSE 0
    IN \A i \in 1..cursor :
          LET block == processedBlocks[i]
              nodes == outputNodes[i + offset]
          IN /\ (TypeIs(block, "projectCard") \/ TypeIs(block, "bulletListItem"))
                   => NestedOrdinals(nodes[1])
                         = ExpectedOrdinals(BlocksBelow(block), 1)
             /\ TypeIs(block, "numberedList")
                   => \A k \in 1..Len(nodes[1].kids) :
                         NestedOrdinals(nodes[1].kids[k])
                            = ExpectedOrdinals(BlocksBelow(block.v["items"].v[k]), 1)

-----------------------------------------------------------------------------
(* Further properties of the ProjectCard block.                            *)

\* C24: the Close button writes nothing to the parent block;
\* props.nestedContent is at all times, so also after a close, the encoding
\* of the document of the last synchronizer write; opening the card after a
\* write starts the nested session with the document of that write
C24_CloseKeepsLastWrite ==
    /\ [](writes >= 1 => props.nestedContent = Text(EncodeDoc(lastWrite)))
    /\ [][(last'.op = "close") => (props' = props /\ writes' = writes)]_vars
    /\ [][(last'.op = "handleCardClick" /\ writes >= 1 /\ lastWrite # <<>>)
             => (nestedDoc' = lastWrite /\ props' = props)]_vars

\* the card re-opened after two changes of which the guard kept the second
\* from being written: the session starts with the document written last
C24_Witness ==
    /\ last.op = "handleCardClick"
    /\ writes = 1 /\ notified = 2
    /\ lastWrite = DocImage
    /\ nestedDoc = DocImage
    /\ props.nestedContent = Text(EncodeDoc(DocImage))

\* C25: whenever the guard is set exactly one guard-clear timeout is
\* pending, and none is pending otherwise; a set guard is eventually cleared,
\* also when the handler's try block raised and when the modal was closed
\* in the meantime
C25_GuardNeverStuck ==
    /\ [](timers <= 1)
    /\ [](isUpdatingRef <=> timers = 1)
    /\ (isUpdatingRef ~> ~isUpdatingRef)

\* the try block raised, the modal was closed, and the timeout then cleared
\* the guard
C25_Witness ==
    /\ last.op = "guardClear"
    /\ ~open
    /\ ~isUpdatingRef
    /\ notified = 1 /\ writes = 0
    /\ timers = 0

\* C26: while the card is closed, never opened or dismissed, the handler is
\* not subscribed; every step that counts a synchronizer write or changes
\* props.nestedContent or props.coverImage is a step of the handler taken
\* with the card open
C26_WritesOnlyWhileOpen ==
    /\ [](~open => ~subscribed)
    /\ [][(\/ writes' # writes
            \/ props'.nestedContent # props.nestedContent
            \/ props'.coverImage # props.coverImage)
              => (open /\ open' /\ last'.op = "onChange")]_vars

\* the modal dismissed after two writes, and the guard-clear timeout fired
\* on the closed card
C26_Witness ==
    /\ ~open /\ ~subscribed
    /\ last.op = "guardClear"
    /\ writes = 2
    /\ props.nestedContent = Text(EncodeDoc(DocPlain))

-----------------------------------------------------------------------------
(* Further properties of the export handler and of the auto-save.          *)

\* C22: within an export attempt a download is triggered only by the step
\* in which the renderer, asked once for a document that renders, yields the
\* blob; at most one download is triggered per attempt; the step in which
\* the renderer rejects triggers none
C22_NoPartialArtifact ==
    [][/\ downloads' <= 1
       /\ downloads' > downloads =>
             /\ exportPc = "render"
             /\ requests = 1
             /\ step' = "Downloaded"
             /\ alerts' = <<Alert("success", "PDF exported successfully")>>
       /\ (exportPc = "render" /\ step' = "RendererFails") =>
             /\ downloads' = 0
             /\ downloads = 0]_vars

\* the renderer yielded the blob and the download was triggered
C22_Witness ==
    /\ step = "Downloaded"
    /\ downloads = 1
    /\ requests = 1

\* the renderer rejected and nothing was downloaded
C22_WitnessRejected ==
    /\ step = "RendererFails"
    /\ requests = 1
    /\ downloads = 0

\* C27: never more than one debounce timeout is pending, however many
\* changes came since it was first set; every write of the timeout is made
\* by that single pending timeout, in a mounted component, stores the
\* document as it is then and leaves no timeout pending, so that a burst of
\* changes is written once; no timeout is pending once the component is
\* unmounted; and a pending timeout eventually fires or is cleared
C27_AutoSaveCoalesces ==
    /\ [](saveTimer <= 1)
    /\ [](~mounted => saveTimer = 0)
    /\ [][step' = "EditorChange" => saveTimer' = 1]_vars
    /\ [][step' = "AutoSaveFire"
             => /\ mounted /\ mounted'
                /\ saveTimer = 1 /\ saveTimer' = 0
                /\ storage' = Text(EncodeDoc(editorDoc))]_vars
    /\ (saveTimer = 1 ~> saveTimer = 0)

\* two changes with no write between them, and one timeout pending
C27_Witness ==
    /\ step = "EditorChange"
    /\ changes = 2
    /\ lastStorageOp = NoStorageOp
    /\ storage = Null
    /\ saveTimer = 1

\* a pending timeout was cleared when the component unmounted
C27_WitnessUnmount ==
    /\ step = "Unmount"
    /\ changes = 1
    /\ lastStorageOp = NoStorageOp
    /\ saveTimer = 0

\* the steps in which handleExportPDF ends
ExportEndSteps ==
    {"ImportFails", "SanitizeFails", "NothingToExport", "Downloaded",
     "RendererFails"}

\* C28: the pending flag, once set, is eventually false again; when the
\* handler has ended, in success, in the notice or in a failure, the flag is
\* false, no run is in progress and the Export button of the mounted
\* component accepts a click
C28_FlagReturnsToIdle ==
    /\ (isExporting ~> ~isExporting)
    /\ [](step \in ExportEndSteps
            => /\ ~isExporting
               /\ exportPc = "idle"
               /\ exportRuns = 0
               /\ mounted /\ ExportEnabled(isExporting))

\* the renderer rejected and the button is enabled again
C28_Witness ==
    /\ step = "RendererFails"
    /\ ~isExporting
    /\ mounted
    /\ exportPc = "idle"

\* the parts of the outcome of an export that are the same whatever the
\* error: one message, of the kind that goes with the way the handler ended,
\* and no error that left the handler
OneOutcome ==
    step \in ExportEndSteps =>
        /\ Len(alerts) = 1
        /\ ~exportError.escaped
        /\ alerts[1].kind = CASE step = "Downloaded" -> "success"
                               [] step = "NothingToExport" -> "notice"
                               [] OTHER -> "failure"
        /\ Len(exportError.caught) = IF alerts[1].kind = "failure" THEN 1 ELSE 0

\* C29 as stated: every export that ends shows exactly one message, and a
\* failure message carries the description of the error caught
C29_OneOutcome ==
    /\ OneOutcome
    /\ (step \in ExportEndSteps /\ alerts[1].kind = "failure")
          => alerts[1].detail = exportError.caught[1].message

\* C29: every export that ends shows exactly one message; a failure message
\* carries the message of the error caught when that is an Error object and
\* the text "Unknown error" otherwise; no error leaves the handler
C29_OneOutcomeUnknownError ==
    /\ OneOutcome
    /\ (step \in ExportEndSteps /\ alerts[1].kind = "failure")
          => alerts[1].detail =
                IF exportError.caught[1].isError
                THEN exportError.caught[1].message ELSE "Unknown error"

\* the renderer rejected with a value that is no Error object
C29_Witness ==
    /\ step = "RendererFails"
    /\ exportError.caught = <<NonError>>
    /\ alerts = <<Alert("failure", "Unknown error")>>

\* an import was rejected and the message of its Error was shown
C29_WitnessImport ==
    /\ step = "ImportFails"
    /\ exportError.caught = <<Err("import failed")>>
    /\ alerts = <<Alert("failure", "import failed")>>

\* C30: the load of a mount that follows a save that returned true returns, for a
\* non-empty document of JSON values, an array equal to the document, and
\* for the empty document null, and leaves the stored value, which is kept
\* also for the empty document, as it is; a load that follows a clear
\* returns null
C30_StorageRoundTrip ==
    [][LoadedAtMount =>
          /\ (lastStorageOp.op = "save" /\ lastStorageOp.ok
                  /\ lastStorageOp.doc # <<>>)
                => /\ loadedContent' = Arr(lastStorageOp.doc)
                   /\ storage' = storage
                   /\ storage # Null
          /\ (lastStorageOp.op = "save" /\ lastStorageOp.ok
                  /\ lastStorageOp.doc = <<>>)
                => /\ loadedContent' = Null
                   /\ storage' = storage
                   /\ storage # Null
          /\ lastStorageOp.op = "clear"
                => /\ loadedContent' = Null
                   /\ storage' = Null]_vars

\* the document saved before the component was unmounted came back from
\* the load of the next mount
C30_Witness ==
    /\ step = "Mount"
    /\ lastStorageOp = [op |-> "save", doc |-> DocImage, ok |-> TRUE]
    /\ loadedContent = Arr(DocImage)
    /\ storage = Text(EncodeDoc(DocImage))

\* an empty array was saved and the next load returned null and left it
C30_WitnessEmpty ==
    /\ step = "Mount"
    /\ lastStorageOp = [op |-> "save", doc |-> <<>>, ok |-> TRUE]
    /\ loadedContent = Null
    /\ storage = Text(<<Tok("["), Tok("]")>>)

\* the key was cleared and the load of the next mount returned null
C30_WitnessCleared ==
    /\ step = "Mount"
    /\ lastStorageOp.op = "clear"
    /\ loadedContent = Null
    /\ storage = Null

====
